---- MODULE Spec2Model ----
(***************************************************************************)
(* Invoice-processing workflow of Pranavjps107/chat_bot.                   *)
(*                                                                         *)
(* The model follows src/src/graph.py (the five-node graph and its         *)
(* conditional edges), src/src/nodes.py (the stage functions and the       *)
(* decision predicates), src/src/state.py (GraphState and its reducers,    *)
(* the pydantic models), src/src/tools/validators.py (InvoiceValidator),   *)
(* src/src/tools/supabase_tool.py (save_invoice and its transaction) and   *)
(* src/src/tools/sql_agent.py (answer_question).                           *)
(*                                                                         *)
(* Conventions.  Optional[X] is a sequence of length at most one: <<>> is  *)
(* None (or a key that was never written), <<x>> is a present value.  A    *)
(* partial update returned by a stage is a record holding only the keys    *)
(* the stage returns.  A Python exception is a record [exc |-> <<msg>>];   *)
(* message texts are abstracted to the name of their cause.  Timestamps    *)
(* (datetime.now()) and console output are left out.  Dates are day        *)
(* numbers, 0 standing for null.                                           *)
(***************************************************************************)
EXTENDS Integers, Sequences, FiniteSets, TLC

VARIABLES
    state,          \* GraphState of the run (src/src/state.py:79-102)
    pc,             \* node the graph runner executes next, "idle" or "END"
    executed,       \* the nodes executed so far in this run, in order
    route,          \* outcome of the last decision predicate, "" if none yet
    escaped,        \* <<msg>> once an exception left a stage function
    ocr_response,   \* what the OCR service answers in this run
    db_rejects,     \* what the database refuses in this run
    llm,            \* how the LLM behaves in this run
    pydantic_major, \* major version of the installed pydantic (1 or 2)
    db,             \* committed rows: table -> set of invoice ids
    last_save,      \* outcome of the last save_invoice call
    last_validate,  \* input and output of the last InvoiceValidator.validate
    runs,           \* concurrent process_invoice calls: run id -> its own record
    pool,           \* SupabaseTool.pool and the save_invoice calls in progress
    sql             \* the LLM's text, the query made of it and its execution

vars == <<state, pc, executed, route, escaped, ocr_response, db_rejects, llm,
          pydantic_major, db, last_save, last_validate, runs, pool, sql>>

\* ------------------------------------------------------------------ bounds
MaxItems == 2        \* longest items list of an OCR answer or of an invoice
MaxInvoices == 2     \* invoices the database holds before direct save_invoice calls stop
MaxRuns == 2         \* process_invoice calls in flight at once
MaxCalls == 12       \* save_invoice calls made on one SupabaseTool
MaxPools == 2        \* calls that find self.pool unset and create a pool

\* ----------------------------------------------------------------- helpers
None == <<>>
Some(x) == <<x>>
IsSet(o) == o # <<>>

IsPrefix(s, t) == Len(s) <= Len(t) /\ SubSeq(t, 1, Len(s)) = s

NoExc == <<>>
Raise(msg) == [exc |-> <<msg>>, val |-> <<>>]
Return(v) == [exc |-> NoExc, val |-> <<v>>]
Raised(r) == r.exc # NoExc

\* ------------------------------------------------------------- GraphState
ListFields == {"query_results", "errors", "processing_logs"}

ScalarFields == {"image_path", "user_query", "ocr_result", "ocr_status",
                 "processed_invoice", "validation_result", "invoice_id",
                 "db_status"}

\* Mutant: the list channels are overwritten like the scalar ones.
add_lastwrite(old, new) == new

\* Annotated[List[...], add]: the reducer of the three list channels.
add(old, new) == old \o new

\* The graph runner's merge of a node's partial update into the state:
\* a channel with a reducer is reduced, any other written channel is
\* overwritten, a channel the update does not name is kept.
Merge(s, update) ==
    [k \in DOMAIN s |->
        IF k \in DOMAIN update
        THEN IF k \in ListFields THEN add(s[k], update[k]) ELSE update[k]
        ELSE s[k]]

\* process_invoice's inputs; the channels it does not name hold no value.
Inputs(image_path, user_query) ==
    [image_path        |-> image_path,
     user_query        |-> user_query,
     ocr_result        |-> None,
     ocr_status        |-> "pending",
     processed_invoice |-> None,
     validation_result |-> None,
     invoice_id        |-> None,
     db_status         |-> "pending",
     query_results     |-> <<>>,
     errors            |-> <<>>,
     processing_logs   |-> <<>>]

\* Python truthiness of an Optional[str]: None and "" are falsy.
Truthy(o) == IsSet(o) /\ o[1] # ""

ErrorEntry(prefix, msg) == [prefix |-> prefix, message |-> msg]
LogEntry(step, status) == [step |-> step, status |-> status]


\* A stage function's result as the graph runner sees it: the partial update
\* it returned, or the exception that left it.
Done(update) == [escaped |-> NoExc, update |-> update]
Escape(msg) == [escaped |-> <<msg>>, update |-> <<>>]

\* try: body / except Exception as e: handler(str(e)).  An exception raised
\* by the handler itself leaves the stage function.
TryExcept(body, handler(_)) ==
    IF Raised(body)
    THEN LET h == handler(body.exc[1]) IN
         IF Raised(h) THEN Escape(h.exc[1]) ELSE Done(h.val[1])
    ELSE Done(body.val[1])

\* ---------------------------------------------------- Invoice-OCR service
\* JSON values are tagged: "absent" (key omitted), "null", "map", "list".
J(t) == [t |-> t]

\* GeminiOCRTool.extract_invoice_data: every failure (unreadable file, LLM
\* call, json.loads) is re-raised as Exception("OCR extraction failed: ..");
\* otherwise whatever JSON value the model produced is returned.
extract_invoice_data(resp) ==
    IF resp.kind = "fault" THEN Raise("OCR extraction failed") ELSE Return(resp)

\* dict.get(key, default) on a tagged JSON member.
GetOr(member, default) == IF member.t = "absent" THEN default ELSE member

\* pydantic's validation of a field declared Dict[str, Any].  A mapping is
\* accepted.  None is rejected.  A list is rejected by pydantic 2; pydantic
\* 1 tries dict(v), which succeeds on a list only when every element has
\* exactly two members: never for a documented seven-key line item, always
\* for the empty list.
ValidDict(v, major) ==
    CASE v.t = "map"  -> TRUE
      [] v.t = "list" -> major = 1 /\ v.list = <<>>
      [] OTHER        -> FALSE

EmptyInfo == [t |-> "map", keys |-> FALSE, invoice_number |-> "",
              invoice_date |-> 0, due_date |-> 0]
EmptyList == [t |-> "list", list |-> <<>>]
EmptySummary == [t |-> "map", total_amount_due |-> "absent"]
EmptyScores == [t |-> "map", overall |-> 0, has_overall |-> FALSE]

\* OCRResult(...): the model is built only if every Dict field validates.
OCRResult(invoice_info, table_info, total_info, confidence_scores, raw_text, major) ==
    IF /\ ValidDict(invoice_info, major)
       /\ ValidDict(table_info, major)
       /\ ValidDict(total_info, major)
       /\ ValidDict(confidence_scores, major)
    THEN Return([invoice_info      |-> invoice_info,
                 table_info        |-> table_info,
                 total_info        |-> total_info,
                 confidence_scores |-> confidence_scores,
                 raw_text          |-> raw_text])
    ELSE Raise("ValidationError")

perform_ocr_try(s, resp, major) ==
    LET got == extract_invoice_data(resp) IN
    IF Raised(got) THEN got
    ELSE LET ocr_data == got.val[1] IN
         IF ocr_data.kind # "object" THEN Raise("AttributeError")
         ELSE LET built == OCRResult(GetOr(ocr_data.invoice_info, EmptyInfo),
                                     GetOr(ocr_data.items, EmptyList),
                                     GetOr(ocr_data.summary, EmptySummary),
                                     GetOr(ocr_data.confidence_scores, EmptyScores),
                                     ocr_data, major) IN
              IF Raised(built) THEN built
              ELSE Return([ocr_result      |-> Some(built.val[1]),
                           ocr_status      |-> "completed",
                           processing_logs |-> <<LogEntry("OCR", "success")>>])

\* Mutant: the except clause forgets to set ocr_status.
perform_ocr_except_nostatus(e) ==
    Return([errors          |-> <<ErrorEntry("OCR Error:", e)>>,
            processing_logs |-> <<LogEntry("OCR", "failed")>>])

perform_ocr_except(e) ==
    Return([ocr_status      |-> "failed",
            errors          |-> <<ErrorEntry("OCR Error:", e)>>,
            processing_logs |-> <<LogEntry("OCR", "failed")>>])

\* Mutant: perform_ocr without its except clause.
perform_ocr_nocatch(s, resp, major) ==
    LET body == perform_ocr_try(s, resp, major) IN
    IF Raised(body) THEN Escape(body.exc[1]) ELSE Done(body.val[1])

perform_ocr(s, resp, major) ==
    TryExcept(perform_ocr_try(s, resp, major), perform_ocr_except)

\* ------------------------------------------------------ Data-Mapping stage
\* pydantic builds a ProcessedInvoice only when every field without a
\* default is supplied and invoice_number is a string.
ProcessedInvoiceRequired == {"invoice_number", "seller", "buyer", "items", "summary"}

ProcessedInvoice(kwargs) ==
    IF /\ ProcessedInvoiceRequired \subseteq DOMAIN kwargs
       /\ kwargs.invoice_number # None
    THEN Return(kwargs)
    ELSE Raise("ValidationError")

\* dict.get(key) of a string member that may be null: None for null.
StrOrNone(x) == IF x = "" THEN None ELSE Some(x)
DateOrNone(d) == IF d = 0 THEN None ELSE Some(d)

process_invoice_data_try(s) ==
    IF ~IsSet(s.ocr_result) THEN Raise("KeyError")
    ELSE LET ocr_result == s.ocr_result[1]
             processed == ProcessedInvoice(
                 [invoice_number |-> StrOrNone(ocr_result.invoice_info.invoice_number),
                  invoice_date   |-> DateOrNone(ocr_result.invoice_info.invoice_date),
                  due_date       |-> DateOrNone(ocr_result.invoice_info.due_date)]) IN
         IF Raised(processed) THEN processed
         ELSE Return([processed_invoice |-> Some(processed.val[1]),
                      processing_logs   |-> <<LogEntry("PROCESS_DATA", "success")>>])

\* Mutant: the except clause also marks the OCR status as failed.
process_invoice_data_except_status(e) ==
    Return([ocr_status      |-> "failed",
            errors          |-> <<ErrorEntry("Processing Error:", e)>>,
            processing_logs |-> <<LogEntry("PROCESS_DATA", "failed")>>])

process_invoice_data_except(e) ==
    Return([errors          |-> <<ErrorEntry("Processing Error:", e)>>,
            processing_logs |-> <<LogEntry("PROCESS_DATA", "failed")>>])

process_invoice_data(s) ==
    TryExcept(process_invoice_data_try(s), process_invoice_data_except)


\* ------------------------------------------------------- Validation Engine
\* A ProcessedInvoice as the validator reads it.  invoice_number is a
\* sequence of characters; money is in cents, quantities in units, rates in
\* whole percents; a date 0, a payment_terms "" and an email "" are None.
Msg(item, text) == [item |-> item, text |-> text]

Upper(c) == IF c = "a" THEN "A" ELSE c
InvoiceNumberClass == {"A", "0", "1", "-", "/"}

\* re.match(r'^[A-Z0-9\-/]+$', invoice_number.upper()): one or more class
\* characters up to the end of the string, where $ also matches just
\* before a final newline.
_validate_invoice_number(invoice_number) ==
    LET n == Len(invoice_number)
        ok(i) == Upper(invoice_number[i]) \in InvoiceNumberClass IN
    /\ n >= 1
    /\ \/ \A i \in 1..n : ok(i)
       \/ /\ n >= 2
          /\ invoice_number[n] = "\n"
          /\ \A i \in 1..(n - 1) : ok(i)

\* re.match of the e-mail pattern, on the addresses the model uses.
_validate_email(email) ==
    CASE email = "a@b.co" -> TRUE
      [] email = "a@b"    -> FALSE
      [] email = "ab.co"  -> FALSE
      [] OTHER            -> FALSE

Abs(x) == IF x < 0 THEN -x ELSE x

RECURSIVE SumSeq(_)
SumSeq(q) == IF q = <<>> THEN 0 ELSE Head(q) + SumSeq(Tail(q))

\* line_total of one item in 1/100 cent: quantity * unit_price, times
\* (100 - discount_percentage) / 100 when discount_percentage is truthy.
LineTotal(item) ==
    item.quantity * item.unit_price * (100 - item.discount_percentage)

\* The tolerance Decimal("0.10"), in cents.
Tolerance == 10

\* InvoiceValidator._validate_totals, in exact arithmetic: the subtotal is
\* compared in 1/100 cent and the tax in 1/10000 cent.
\* Mutant: the tolerance itself is still accepted.
_validate_totals_inclusive(invoice_data) ==
    LET items == invoice_data.items
        calculated_subtotal == SumSeq([i \in 1..Len(items) |-> LineTotal(items[i])])
        calculated_tax ==
            SumSeq([i \in 1..Len(items) |-> LineTotal(items[i]) * items[i].tax_rate])
        subtotal_diff == Abs(calculated_subtotal - invoice_data.summary.subtotal * 100)
        tax_diff == Abs(calculated_tax - invoice_data.summary.total_tax * 10000) IN
    subtotal_diff <= Tolerance * 100 /\ tax_diff <= Tolerance * 10000

_validate_totals(invoice_data) ==
    LET items == invoice_data.items
        calculated_subtotal == SumSeq([i \in 1..Len(items) |-> LineTotal(items[i])])
        calculated_tax ==
            SumSeq([i \in 1..Len(items) |-> LineTotal(items[i]) * items[i].tax_rate])
        subtotal_diff == Abs(calculated_subtotal - invoice_data.summary.subtotal * 100)
        tax_diff == Abs(calculated_tax - invoice_data.summary.total_tax * 10000) IN
    subtotal_diff < Tolerance * 100 /\ tax_diff < Tolerance * 10000

When(cond, entry) == IF cond THEN <<entry>> ELSE <<>>

\* Mutant: items labelled with enumerate's 0-based index.
RECURSIVE ItemErrors_zero_based(_, _)
ItemErrors_zero_based(items, i) ==
    IF i > Len(items) THEN <<>>
    ELSE When(items[i].quantity <= 0, Msg(i - 1, "Quantity must be positive"))
         \o When(items[i].unit_price < 0, Msg(i - 1, "Unit price cannot be negative"))
         \o ItemErrors_zero_based(items, i + 1)

RECURSIVE ItemErrors(_, _)
ItemErrors(items, i) ==
    IF i > Len(items) THEN <<>>
    ELSE When(items[i].quantity <= 0, Msg(i, "Quantity must be positive"))
         \o When(items[i].unit_price < 0, Msg(i, "Unit price cannot be negative"))
         \o ItemErrors(items, i + 1)

ValidationErrors(invoice_data) ==
    When(invoice_data.invoice_number = <<>>, Msg(0, "Invoice number is required"))
    \o When(/\ invoice_data.invoice_date # 0
            /\ invoice_data.due_date # 0
            /\ invoice_data.due_date < invoice_data.invoice_date,
            Msg(0, "Due date cannot be before invoice date"))
    \o (IF invoice_data.items = <<>>
        THEN <<Msg(0, "Invoice must have at least one line item")>>
        ELSE ItemErrors(invoice_data.items, 1))

ValidationWarnings(invoice_data) ==
    When(invoice_data.invoice_date = 0, "Invoice date is missing")
    \o When(/\ invoice_data.invoice_number # <<>>
            /\ ~_validate_invoice_number(invoice_data.invoice_number),
            "Invoice number format may be incorrect")
    \o When(~_validate_totals(invoice_data), "Invoice totals may not add up correctly")
    \o When(invoice_data.seller.name = "", "Seller information is incomplete")
    \o When(invoice_data.buyer.name = "", "Buyer information is incomplete")
    \o When(/\ invoice_data.seller.email # ""
            /\ ~_validate_email(invoice_data.seller.email),
            "Seller email format is invalid")
    \o When(/\ invoice_data.buyer.email # ""
            /\ ~_validate_email(invoice_data.buyer.email),
            "Buyer email format is invalid")

ValidationSuggestions(invoice_data) ==
    When(invoice_data.ocr_confidence < 80,
         "OCR confidence is low. Manual review recommended.")
    \o When(invoice_data.payment_terms = "", "Consider adding payment terms")

\* Mutant: warnings count against validity.
\* Mutant: an invoice with review suggestions is not valid.
IsValid_nosuggestions(errors, warnings, suggestions) ==
    Len(errors) = 0 /\ Len(suggestions) = 0

IsValid_nowarnings(errors, warnings, suggestions) ==
    Len(errors) = 0 /\ Len(warnings) = 0

\* is_valid = len(errors) == 0
IsValid(errors, warnings, suggestions) == Len(errors) = 0

\* InvoiceValidator.validate.  Its first statement reads an attribute of
\* invoice_data, so None raises AttributeError; on a ProcessedInvoice
\* nothing in it raises.
validate(invoice_data) ==
    IF ~IsSet(invoice_data) THEN Raise("AttributeError")
    ELSE LET inv == invoice_data[1]
             errors == ValidationErrors(inv)
             warnings == ValidationWarnings(inv)
             suggestions == ValidationSuggestions(inv) IN
         Return([is_valid    |-> IsValid(errors, warnings, suggestions),
                 errors      |-> errors,
                 warnings    |-> warnings,
                 suggestions |-> suggestions])

\* -------------------------------------------------------- Validation stage
\* state["processed_invoice"] of a channel never written either raises
\* KeyError or yields None, on which validate raises: a fault both ways.
validate_invoice_try(s) ==
    LET result == validate(s.processed_invoice) IN
    IF Raised(result) THEN result
    ELSE LET validation_result == result.val[1] IN
         Return([validation_result |-> Some(validation_result),
                 processing_logs   |->
                     <<LogEntry("VALIDATE",
                                IF validation_result.is_valid THEN "success"
                                                              ELSE "warning")>>])

\* Mutant: a validation that could not run counts as passed.
validate_invoice_except_passes(e) ==
    Return([validation_result |-> Some([is_valid |-> TRUE, errors |-> <<>>,
                                        warnings |-> <<>>, suggestions |-> <<>>]),
            errors |-> <<ErrorEntry("Validation Error:", e)>>])

validate_invoice_except(e) ==
    Return([errors |-> <<ErrorEntry("Validation Error:", e)>>])

validate_invoice(s) ==
    TryExcept(validate_invoice_try(s), validate_invoice_except)


\* ------------------------------------------------------- Persistence stage
Tables == {"invoices", "sellers", "buyers", "invoice_items", "invoice_summary",
           "payment_information", "invoice_metadata", "processing_history"}

\* OCRResult.__dict__: the mapping save_to_database hands to save_invoice.
\* Its keys are the model's field names, so "summary", "items", "seller",
\* "buyer", "payment" and "additional" are not among them.
DictOf(ocr_result) ==
    [invoice_info      |-> ocr_result.invoice_info,
     summary           |-> [t |-> "absent", total_amount_due |-> "absent"],
     confidence_scores |-> ocr_result.confidence_scores,
     items             |-> [t |-> "absent", list |-> <<>>],
     seller            |-> J("absent"),
     buyer             |-> J("absent"),
     payment           |-> J("absent"),
     additional        |-> J("absent")]

\* {}: what save_to_database passes when ocr_result is None.
EmptyDict ==
    [invoice_info      |-> [t |-> "absent", keys |-> FALSE, invoice_number |-> "",
                            invoice_date |-> 0, due_date |-> 0],
     summary           |-> [t |-> "absent", total_amount_due |-> "absent"],
     confidence_scores |-> [t |-> "absent", overall |-> 0, has_overall |-> FALSE],
     items             |-> [t |-> "absent", list |-> <<>>],
     seller            |-> J("absent"),
     buyer             |-> J("absent"),
     payment           |-> J("absent"),
     additional        |-> J("absent")]

Stmt(table, fault) == [table |-> table, fault |-> fault]

\* Python's evaluation of the arguments of the first INSERT, left to right.
InvoicesArgsFault(invoice_data) ==
    CASE invoice_data.invoice_info.t = "absent"            -> <<"KeyError">>
      [] invoice_data.invoice_info.t # "map"               -> <<"TypeError">>
      [] ~invoice_data.invoice_info.keys                   -> <<"KeyError">>
      [] invoice_data.summary.t = "absent"                 -> <<"KeyError">>
      [] invoice_data.summary.t # "map"                    -> <<"TypeError">>
      [] invoice_data.summary.total_amount_due = "absent"  -> <<"KeyError">>
      [] invoice_data.summary.total_amount_due = "null"    -> <<"TypeError">>
      [] invoice_data.confidence_scores.t = "absent"       -> <<"KeyError">>
      [] invoice_data.confidence_scores.t # "map"          -> <<"TypeError">>
      [] ~invoice_data.confidence_scores.has_overall       -> <<"KeyError">>
      [] OTHER                                             -> NoExc

\* for item in invoice_data.get("items", []): one INSERT per item, whose
\* float(item.get("quantity", 0)) fails on null; a null items member is
\* not iterable, and iterating a mapping yields its keys, which have no get.
ItemStmts(items) ==
    CASE items.t = "absent" -> <<>>
      [] items.t = "null"   -> <<Stmt("", <<"TypeError">>)>>
      [] items.t = "map"    -> <<Stmt("", <<"AttributeError">>)>>
      [] OTHER ->
            [i \in 1..Len(items.list) |->
                Stmt("invoice_items",
                     IF items.list[i].quantity = "null" THEN <<"TypeError">> ELSE NoExc)]

\* The statements save_invoice issues for invoice_data, in order, each with
\* the exception its argument evaluation raises, if any.
Statements(invoice_data) ==
    <<Stmt("invoices", InvoicesArgsFault(invoice_data))>>
    \o (IF invoice_data.seller.t = "map" THEN <<Stmt("sellers", NoExc)>> ELSE <<>>)
    \o (IF invoice_data.buyer.t = "map" THEN <<Stmt("buyers", NoExc)>> ELSE <<>>)
    \o ItemStmts(invoice_data.items)
    \o <<Stmt("invoice_summary", NoExc)>>
    \o (IF invoice_data.payment.t = "map" THEN <<Stmt("payment_information", NoExc)>> ELSE <<>>)
    \o <<Stmt("invoice_metadata",
              IF invoice_data.additional.t = "null" THEN <<"AttributeError">> ELSE NoExc)>>
    \o <<Stmt("processing_history", NoExc)>>

\* A statement fails when its arguments raise or the database refuses it.
StmtFails(stmt, rejects) == stmt.fault # NoExc \/ stmt.table = rejects

\* Number of statements that ran before the first failing one.
RECURSIVE RanBeforeFault(_, _, _)
RanBeforeFault(stmts, rejects, i) ==
    IF i > Len(stmts) \/ StmtFails(stmts[i], rejects) THEN i - 1
    ELSE RanBeforeFault(stmts, rejects, i + 1)

\* The rows of invoice id that the first n statements wrote.
Written(d, stmts, n, id) ==
    [t \in Tables |->
        IF \E i \in 1..n : stmts[i].table = t THEN d[t] \cup {id} ELSE d[t]]

\* Mutant: every statement is committed as it runs.
Transaction_autocommit(d, stmts, ran, id, raised) == Written(d, stmts, ran, id)

\* async with conn.transaction(): commit on normal exit, roll back when an
\* exception passes through.
Transaction(d, stmts, ran, id, raised) ==
    IF raised THEN d ELSE Written(d, stmts, ran, id)

AllIds(d) == UNION {d[t] : t \in Tables}
Max(S) == IF S = {} THEN 0 ELSE CHOOSE x \in S : \A y \in S : y <= x

\* uuid.uuid4(): an id no row carries.
NewId(d) == Max(AllIds(d)) + 1

\* SupabaseTool.save_invoice.  A failure of init_pool or acquire happens
\* before the transaction starts and is not re-wrapped; any exception in
\* the body is re-raised as "Failed to save invoice".
save_invoice(invoice_data, rejects, d) ==
    IF rejects = "connect"
    THEN [exc |-> <<"ConnectionError">>, val |-> <<>>, ran |-> 0, db |-> d]
    ELSE LET invoice_id == NewId(d)
             stmts == Statements(invoice_data)
             ran == RanBeforeFault(stmts, rejects, 1)
             raised == ran < Len(stmts) IN
         [exc |-> IF raised THEN <<"Failed to save invoice">> ELSE NoExc,
          val |-> IF raised THEN <<>> ELSE <<invoice_id>>,
          ran |-> ran,
          db  |-> Transaction(d, stmts, ran, invoice_id, raised)]

\* Mutant: the mapping is handed over only for a mapped invoice.
SaveArgument_mapped(s) ==
    IF IsSet(s.ocr_result) /\ IsSet(s.processed_invoice)
    THEN DictOf(s.ocr_result[1]) ELSE EmptyDict

\* invoice_data = state["ocr_result"].__dict__ if state["ocr_result"] else {}
SaveArgument(s) ==
    IF IsSet(s.ocr_result) THEN DictOf(s.ocr_result[1]) ELSE EmptyDict

save_to_database_try(s, rejects, d) ==
    LET saved == save_invoice(SaveArgument(s), rejects, d) IN
    IF Raised(saved) THEN Raise(saved.exc[1])
    ELSE Return([invoice_id      |-> Some(saved.val[1]),
                 db_status       |-> "saved",
                 processing_logs |-> <<LogEntry("SAVE_DATABASE", "success")>>])

\* Mutant: the handler of perform_ocr copied, with its status field.
save_to_database_except_ocr(e) ==
    Return([db_status  |-> "failed",
            ocr_status |-> "failed",
            errors     |-> <<ErrorEntry("Database Error:", e)>>])

\* Mutant: the id generated for the attempt is reported with the failure.
save_to_database_except_id(e) ==
    Return([invoice_id |-> Some(0),
            db_status  |-> "failed",
            errors     |-> <<ErrorEntry("Database Error:", e)>>])

save_to_database_except(e) ==
    Return([db_status |-> "failed",
            errors    |-> <<ErrorEntry("Database Error:", e)>>])

save_to_database(s, rejects, d) ==
    TryExcept(save_to_database_try(s, rejects, d), save_to_database_except)


\* -------------------------------------------------------------- Query stage
\* InvoiceProcessingNodes.__init__ builds the agent on supabase_tool.client
\* (the supabase Client, or None), api/main.py on the SupabaseTool itself.
NodesAgentTool == "client"
ApiAgentTool == "supabase_tool"

\* SupabaseTool.execute_query as answer_question uses it: init_pool and
\* acquire raise outside its try; a fault of the statement itself is
\* returned as {success: False}; a SELECT returns the rows it finds.
execute_query(tool, rejects, d) ==
    CASE tool # "supabase_tool" -> Raise("AttributeError")
      [] rejects = "connect"    -> Raise("ConnectionError")
      [] rejects = "query"      -> Return([success |-> FALSE, rows |-> 0])
      [] OTHER -> Return([success |-> TRUE, rows |-> Cardinality(d["invoices"])])

\* InvoiceSQLAgent.answer_question: every exception inside it is caught and
\* turned into a text, so it always returns a string.
answer_question(question, tool, model, rejects, d) ==
    IF model.generate = "fault" THEN "Error processing query"
    ELSE LET result == execute_query(tool, rejects, d) IN
         CASE Raised(result)            -> "Error processing query"
           [] ~result.val[1].success    -> "Error executing query"
           [] result.val[1].rows = 0    -> "No data found for your query."
           [] model.summarize = "fault" -> "Error processing query"
           [] OTHER                     -> "summary"

\* QueryResult(...): query is declared str, so None is rejected.
QueryResult(query, result, success, error_message) ==
    IF ~IsSet(query) THEN Raise("ValidationError")
    ELSE Return([query          |-> query[1],
                 result         |-> result,
                 execution_time |-> 0,
                 success        |-> success,
                 error_message  |-> error_message])

process_user_query_try(s, tool, model, rejects, d) ==
    IF ~Truthy(s.user_query) THEN Return(<<>>)
    ELSE LET answer == answer_question(s.user_query[1], tool, model, rejects, d)
             query_result == QueryResult(s.user_query, Some(answer), TRUE, None) IN
         IF Raised(query_result) THEN query_result
         ELSE Return([query_results |-> <<query_result.val[1]>>])

process_user_query_except(s, e) ==
    LET query_result == QueryResult(s.user_query, None, FALSE, Some(e)) IN
    IF Raised(query_result) THEN query_result
    ELSE Return([query_results |-> <<query_result.val[1]>>,
                 errors        |-> <<ErrorEntry("Query Error:", e)>>])

process_user_query(s, tool, model, rejects, d) ==
    TryExcept(process_user_query_try(s, tool, model, rejects, d),
              LAMBDA e : process_user_query_except(s, e))

\* ------------------------------------------------------ decision predicates
\* Mutant: the OCR outcome is not looked at.
check_ocr_status_always(s) == "ocr_success"

check_ocr_status(s) ==
    IF s.ocr_status = "completed" THEN "ocr_success" ELSE "ocr_failed"

\* Mutant: no warning-only outcome.
check_validation_status_nowarn(s) ==
    IF IsSet(s.validation_result) /\ s.validation_result[1].is_valid
    THEN "validation_passed" ELSE "validation_failed"

\* Mutant: a result with warnings does not pass.
check_validation_status_strict(s) ==
    IF /\ IsSet(s.validation_result)
       /\ s.validation_result[1].is_valid
       /\ s.validation_result[1].warnings = <<>>
    THEN "validation_passed" ELSE "validation_failed"

\* Mutant: the warning-only outcome does not look at errors.
check_validation_status_open(s) ==
    CASE IsSet(s.validation_result) /\ s.validation_result[1].is_valid
            -> "validation_passed"
      [] IsSet(s.validation_result) -> "validation_warning"
      [] OTHER -> "validation_failed"

check_validation_status(s) ==
    LET validation_result == s.validation_result IN
    CASE IsSet(validation_result) /\ validation_result[1].is_valid
            -> "validation_passed"
      [] /\ IsSet(validation_result)
         /\ ~validation_result[1].is_valid
         /\ validation_result[1].errors = <<>>
            -> "validation_warning"
      [] OTHER -> "validation_failed"

\* Mutant: the empty string counts as a query.
check_query_needed_isset(s) ==
    IF IsSet(s.user_query) THEN "process_query" ELSE "skip_query"

\* Mutant: a query is answered only about a saved invoice.
check_query_needed_saved(s) ==
    IF Truthy(s.user_query) /\ s.db_status = "saved" THEN "process_query" ELSE "skip_query"

check_query_needed(s) ==
    IF Truthy(s.user_query) THEN "process_query" ELSE "skip_query"

\* ------------------------------------------------------------------- graph
Nodes == {"perform_ocr", "process_invoice_data", "validate_invoice",
          "save_to_database", "process_user_query"}

EntryPoint == "perform_ocr"

\* build_graph's edges: the decision taken after node on state s (the name
\* "edge" stands for an unconditional edge) and the node it leads to.
Decision(node, s) ==
    CASE node = "perform_ocr"      -> check_ocr_status(s)
      [] node = "validate_invoice" -> check_validation_status(s)
      [] node = "save_to_database" -> check_query_needed(s)
      [] OTHER                     -> "edge"

Target_retry(node, outcome) ==
    CASE node = "perform_ocr" /\ outcome = "ocr_success"             -> "process_invoice_data"
      [] node = "perform_ocr" /\ outcome = "ocr_failed"              -> "END"
      [] node = "process_invoice_data"                               -> "validate_invoice"
      [] node = "validate_invoice" /\ outcome = "validation_passed"  -> "save_to_database"
      [] node = "validate_invoice" /\ outcome = "validation_warning" -> "save_to_database"
      [] node = "validate_invoice" /\ outcome = "validation_failed"  -> "process_invoice_data"
      [] node = "save_to_database" /\ outcome = "process_query"      -> "process_user_query"
      [] node = "save_to_database" /\ outcome = "skip_query"         -> "END"
      [] node = "process_user_query"                                 -> "END"

Target(node, outcome) ==
    CASE node = "perform_ocr" /\ outcome = "ocr_success"             -> "process_invoice_data"
      [] node = "perform_ocr" /\ outcome = "ocr_failed"              -> "END"
      [] node = "process_invoice_data"                               -> "validate_invoice"
      [] node = "validate_invoice" /\ outcome = "validation_passed"  -> "save_to_database"
      [] node = "validate_invoice" /\ outcome = "validation_warning" -> "save_to_database"
      [] node = "validate_invoice" /\ outcome = "validation_failed"  -> "END"
      [] node = "save_to_database" /\ outcome = "process_query"      -> "process_user_query"
      [] node = "save_to_database" /\ outcome = "skip_query"         -> "END"
      [] node = "process_user_query"                                 -> "END"

\* The stage function registered for node, applied to the state s of a run
\* whose OCR call is answered by resp, on the database d.
NodeCall(node, s, resp, d) ==
    CASE node = "perform_ocr"          -> perform_ocr(s, resp, pydantic_major)
      [] node = "process_invoice_data" -> process_invoice_data(s)
      [] node = "validate_invoice"     -> validate_invoice(s)
      [] node = "save_to_database"     -> save_to_database(s, db_rejects, d)
      [] node = "process_user_query"   ->
            process_user_query(s, NodesAgentTool, llm, db_rejects, d)

RunNode(node, s) == NodeCall(node, s, ocr_response, db)

\* No concurrent runs, no pool: the value of runs and pool in the
\* specifications of a single run.
NoRuns == <<>>
NoPool == [current |-> 0, pools |-> <<>>, started |-> 0, creating |-> 0, done |-> 0,
           last_exit |-> [called |-> FALSE, raised |-> FALSE, acquired |-> FALSE]]

NoSave == [called |-> FALSE, raised |-> FALSE, ran |-> 0, invoice_id |-> 0]
NoValidate == [called |-> FALSE, input |-> None, output |-> None]

\* ------------------------------------------------- queries as text
\* A text is the sequence of its words, whitespace between words being
\* implied; " " is extra leading or trailing blank space, "\n" a line
\* break, "<fence>" a code fence (three backquotes).
Whitespace == {" ", "\n"}

\* str.strip()
RECURSIVE lstrip(_)
lstrip(text) ==
    IF text # <<>> /\ Head(text) \in Whitespace THEN lstrip(Tail(text)) ELSE text

RECURSIVE rstrip(_)
rstrip(text) ==
    IF text # <<>> /\ text[Len(text)] \in Whitespace
    THEN rstrip(SubSeq(text, 1, Len(text) - 1)) ELSE text

strip(text) == rstrip(lstrip(text))

\* str.upper() of a word
UpperWord(word) ==
    CASE word \in {"select", "Select"} -> "SELECT"
      [] word = "select*"              -> "SELECT*"
      [] word = "delete"               -> "DELETE"
      [] OTHER                         -> word

\* text.strip().upper().startswith("SELECT")
StartsWithSelect(text) ==
    LET stripped == strip(text) IN
    stripped # <<>> /\ UpperWord(stripped[1]) \in {"SELECT", "SELECT*"}

\* The part of text before its first separator, and the part after it.
RECURSIVE Before(_, _)
Before(text, sep) ==
    IF text = <<>> \/ Head(text) = sep THEN <<>>
    ELSE <<Head(text)>> \o Before(Tail(text), sep)

After(text, sep) == SubSeq(text, Len(Before(text, sep)) + 2, Len(text))

\* text.split("\n")
RECURSIVE split_lines(_)
split_lines(text) ==
    IF \E i \in DOMAIN text : text[i] = "\n"
    THEN <<Before(text, "\n")>> \o split_lines(After(text, "\n"))
    ELSE <<text>>

\* "\n".join(lines[i:])
RECURSIVE join_lines(_, _)
join_lines(lines, i) ==
    IF i = Len(lines) THEN lines[i]
    ELSE lines[i] \o <<"\n">> \o join_lines(lines, i + 1)

\* str.replace("sql", ""): every occurrence goes, inside a word too.
RECURSIVE replace_sql(_)
replace_sql(text) ==
    IF text = <<>> THEN <<>>
    ELSE (CASE Head(text) = "sql"       -> <<>>
            [] Head(text) = "sql_rows"  -> <<"_rows">>
            [] OTHER                    -> <<Head(text)>>)
         \o replace_sql(Tail(text))

\* InvoiceSQLAgent.generate_query on the text the LLM answers: the part
\* between the first two fences if there is a fence, cut to start at the
\* first line that starts with SELECT if there is one.
generate_query(response_text) ==
    LET stripped == strip(response_text)
        unfenced ==
            IF \E i \in DOMAIN stripped : stripped[i] = "<fence>"
            THEN strip(replace_sql(Before(After(stripped, "<fence>"), "<fence>")))
            ELSE stripped
        lines == split_lines(unfenced)
        selects == {i \in DOMAIN lines : StartsWithSelect(lines[i])}
        sql_query ==
            IF selects = {} THEN unfenced
            ELSE join_lines(lines, CHOOSE i \in selects : \A j \in selects : i <= j) IN
    strip(sql_query)

\* The word a statement starts with, in upper case.
Keyword(query) == IF strip(query) = <<>> THEN "" ELSE UpperWord(strip(query)[1])

\* A command status as asyncpg returns it, e.g. "DELETE 3", "DROP TABLE".
StatusCount(n) == [number |-> TRUE, n |-> n, word |-> ""]
StatusWord(w) == [number |-> FALSE, n |-> 0, word |-> w]

\* What the database does with a query: conn.fetch (a prepared statement,
\* which takes one command only) returns rows, conn.execute returns the
\* command status of what it ran, and either raises when the database
\* refuses the statement.
Postgres(query, fetch, rejects, d) ==
    LET rows == Cardinality(d["invoices"])
        keyword == Keyword(query)
        several == \E i \in DOMAIN query : query[i] = ";"
        fault(e) == [fault |-> <<e>>, rows |-> 0, status |-> <<>>, db |-> d]
        done(n, status, after) ==
            [fault |-> NoExc, rows |-> n, status |-> status, db |-> after]
        emptied == [d EXCEPT !["invoices"] = {}] IN
    CASE rejects = "query"                  -> fault("PostgresError")
      [] fetch /\ several                   -> fault("PostgresSyntaxError")
      [] keyword \in {"SELECT", "SELECT*"}  -> done(rows, <<StatusWord("SELECT"), StatusCount(rows)>>, d)
      [] keyword = "WITH"                   -> done(rows, <<StatusWord("SELECT"), StatusCount(rows)>>, d)
      [] keyword = "DELETE"  -> done(0, <<StatusWord("DELETE"), StatusCount(rows)>>, emptied)
      [] keyword = "DROP"    -> done(0, <<StatusWord("DROP"), StatusWord("TABLE")>>, emptied)
      [] keyword = "CREATE"  -> done(0, <<StatusWord("CREATE"), StatusWord("TABLE")>>, d)
      [] keyword = ""        -> done(0, <<>>, d)
      [] OTHER               -> fault("PostgresSyntaxError")

\* SupabaseTool.execute_query on a query string.  init_pool and acquire
\* are outside the try; inside it the SELECT branch fetches rows, the other
\* branch executes and reads the row count off the last word of the
\* command status, and any exception becomes {success: False, error}.
SupabaseTool_execute_query(query, rejects, d) ==
    IF rejects = "connect"
    THEN [exc |-> <<"ConnectionError">>, val |-> <<>>, branch |-> "",
          fault |-> NoExc, reached |-> FALSE, db |-> d]
    ELSE LET fetch == StartsWithSelect(query)
             answer == Postgres(query, fetch, rejects, d)
             status == answer.status
             failure(e) == [success |-> FALSE, data |-> None, row_count |-> None,
                            error |-> Some(e)]
             value ==
                CASE answer.fault # NoExc -> failure(answer.fault[1])
                  [] fetch -> [success |-> TRUE, data |-> Some(answer.rows),
                               row_count |-> Some(answer.rows), error |-> None]
                  [] status = <<>> -> [success |-> TRUE, data |-> None,
                                       row_count |-> Some(0), error |-> None]
                  [] ~status[Len(status)].number -> failure("ValueError")
                  [] OTHER -> [success |-> TRUE, data |-> None,
                               row_count |-> Some(status[Len(status)].n),
                               error |-> None] IN
         [exc |-> NoExc, val |-> <<value>>,
          branch |-> IF fetch THEN "fetch" ELSE "execute",
          fault |-> answer.fault, reached |-> TRUE, db |-> answer.db]

\* No query asked: the value of sql in the specifications of the workflow.
NoSql == [text |-> <<>>, query |-> <<>>, generated |-> FALSE, called |-> FALSE,
          raised |-> FALSE, branch |-> "", fault |-> NoExc, result |-> None,
          before |-> 0, answer |-> "", api_text |-> <<>>, sql_generated |-> None,
          success |-> FALSE]


\* What executing node does outside the state: save_to_database's call of
\* save_invoice changes the database.
SaveEffect(node) ==
    IF node = "save_to_database"
    THEN LET saved == save_invoice(SaveArgument(state), db_rejects, db) IN
         /\ db' = saved.db
         /\ last_save' = [called |-> TRUE, raised |-> Raised(saved), ran |-> saved.ran,
                          invoice_id |-> IF Raised(saved) THEN 0 ELSE saved.val[1]]
    ELSE UNCHANGED <<db, last_save>>

ValidateEffect(node) ==
    IF node = "validate_invoice" /\ IsSet(state.processed_invoice)
    THEN last_validate' = [called |-> TRUE, input |-> state.processed_invoice,
                           output |-> Some(validate(state.processed_invoice).val[1])]
    ELSE UNCHANGED last_validate

\* One superstep of the compiled graph: run the node, merge its partial
\* update through the reducers, evaluate the edge leaving the node.  An
\* exception leaving the node aborts ainvoke.
Superstep(node) ==
    /\ pc = node
    /\ LET r == RunNode(node, state) IN
       IF r.escaped # NoExc
       THEN /\ escaped' = r.escaped
            /\ pc' = "raised"
            /\ UNCHANGED <<state, route>>
       ELSE LET merged == Merge(state, r.update)
                outcome == Decision(node, merged) IN
            /\ state' = merged
            /\ route' = outcome
            /\ pc' = Target(node, outcome)
            /\ UNCHANGED escaped
    /\ executed' = Append(executed, node)
    /\ SaveEffect(node)
    /\ ValidateEffect(node)
    /\ UNCHANGED <<ocr_response, db_rejects, llm, pydantic_major, runs, pool, sql>>


\* ------------------------------------------------------------- environment
\* Answers of the OCR service: a fault, a JSON array, or a JSON object whose
\* members follow the documented shape or depart from it.
InfoMembers ==
    {[t |-> "map", keys |-> TRUE, invoice_number |-> "INV-1", invoice_date |-> 1, due_date |-> 2],
     [t |-> "map", keys |-> TRUE, invoice_number |-> "", invoice_date |-> 0, due_date |-> 0],
     [t |-> "null", keys |-> FALSE, invoice_number |-> "", invoice_date |-> 0, due_date |-> 0],
     [t |-> "absent", keys |-> FALSE, invoice_number |-> "", invoice_date |-> 0, due_date |-> 0]}

ItemJson == {[quantity |-> "num"], [quantity |-> "null"]}

ItemLists == UNION {[1..n -> ItemJson] : n \in 0..MaxItems}

ItemsMembers ==
    {[t |-> "list", list |-> l] : l \in ItemLists}
    \cup {[t |-> x, list |-> <<>>] : x \in {"absent", "null", "map"}}

SummaryMembers ==
    {[t |-> "map", total_amount_due |-> "num"],
     [t |-> "map", total_amount_due |-> "null"],
     [t |-> "absent", total_amount_due |-> "absent"]}

ScoresMembers ==
    {[t |-> "map", overall |-> 92, has_overall |-> TRUE],
     [t |-> "map", overall |-> 55, has_overall |-> TRUE],
     [t |-> "absent", overall |-> 0, has_overall |-> FALSE]}

Answer(kind, info, items, summary, scores) ==
    [kind |-> kind, invoice_info |-> info, items |-> items, summary |-> summary,
     confidence_scores |-> scores]

BlankAnswer(kind) ==
    Answer(kind,
           [t |-> "absent", keys |-> FALSE, invoice_number |-> "", invoice_date |-> 0, due_date |-> 0],
           [t |-> "absent", list |-> <<>>],
           [t |-> "absent", total_amount_due |-> "absent"],
           [t |-> "absent", overall |-> 0, has_overall |-> FALSE])

OcrResponses ==
    {BlankAnswer("fault"), BlankAnswer("array")}
    \cup {Answer("object", i, it, su, sc) :
            i \in InfoMembers, it \in ItemsMembers, su \in SummaryMembers, sc \in ScoresMembers}

\* The documented shape with every key present and a non-empty items list.
WellFormed(resp) ==
    /\ resp.kind = "object"
    /\ resp.invoice_info.t = "map" /\ resp.invoice_info.keys
    /\ resp.invoice_info.invoice_number # ""
    /\ resp.items.t = "list" /\ resp.items.list # <<>>
    /\ \A i \in 1..Len(resp.items.list) : resp.items.list[i].quantity = "num"
    /\ resp.summary.t = "map" /\ resp.summary.total_amount_due = "num"
    /\ resp.confidence_scores.t = "map" /\ resp.confidence_scores.has_overall

DbRejects == {"none", "connect", "query"} \cup Tables

LLMs == [generate : {"sql", "fault"}, summarize : {"text", "fault"}]

ImagePaths == {"invoice.png"}
UserQueries == {None, Some(""), Some("total due?")}

NoRows == [t \in Tables |-> {}]
OneInvoice == [t \in Tables |-> {1}]

\* ------------------------------------------------------------- the workflow
\* InvoiceProcessingWorkflow.process_invoice: build the inputs and hand them
\* to the compiled graph, which starts at the entry point.
ProcessInvoice ==
    /\ pc = "idle"
    /\ \E image_path \in ImagePaths, user_query \in UserQueries :
          state' = Inputs(image_path, user_query)
    /\ pc' = EntryPoint
    /\ UNCHANGED <<executed, route, escaped, ocr_response, db_rejects, llm,
                   pydantic_major, db, last_save, last_validate, runs, pool, sql>>

\* ainvoke runs supersteps until the graph reaches END.
RunGraph == pc \in Nodes /\ Superstep(pc)

\* result = await self.app.ainvoke(inputs); return result
ReturnResult ==
    /\ pc = "END"
    /\ pc' = "returned"
    /\ UNCHANGED <<state, executed, route, escaped, ocr_response, db_rejects, llm,
                   pydantic_major, db, last_save, last_validate, runs, pool, sql>>

Init ==
    /\ state = Inputs("", None)
    /\ pc = "idle"
    /\ executed = <<>>
    /\ route = ""
    /\ escaped = NoExc
    /\ ocr_response \in OcrResponses
    /\ db_rejects \in {"none", "connect", "invoices", "invoice_summary", "query"}
    /\ llm \in {[generate |-> "sql", summarize |-> "text"],
                [generate |-> "fault", summarize |-> "text"]}
    /\ pydantic_major \in {1, 2}
    /\ db \in {NoRows, OneInvoice}
    /\ last_save = NoSave
    /\ last_validate = NoValidate
    /\ runs = NoRuns
    /\ pool = NoPool
    /\ sql = NoSql

Next == ProcessInvoice \/ RunGraph \/ ReturnResult

Spec == Init /\ [][Next]_vars


\* ------------------------------------------------- the stages, one by one
\* Every stage function is a public coroutine of InvoiceProcessingNodes.
\* StageSpec starts the graph at any node, on a state of the declared
\* GraphState type, and lets it run on from there: each stage is exercised
\* on both of its branches, also the stages that a run started by
\* process_invoice does not get to.
PerformOcr == pc = "perform_ocr" /\ Superstep("perform_ocr")
ProcessInvoiceData == pc = "process_invoice_data" /\ Superstep("process_invoice_data")
ValidateInvoice == pc = "validate_invoice" /\ Superstep("validate_invoice")
SaveToDatabase == pc = "save_to_database" /\ Superstep("save_to_database")
ProcessUserQuery == pc = "process_user_query" /\ Superstep("process_user_query")

ObjectAnswer(i, it, su, sc, major) ==
    OCRResult(GetOr(i, EmptyInfo), GetOr(it, EmptyList), GetOr(su, EmptySummary),
              GetOr(sc, EmptyScores), Answer("object", i, it, su, sc), major)

\* The OCRResult values perform_ocr can build from the answers above.
OCRResults ==
    {ObjectAnswer(x[1], x[2], x[3], x[4], x[5]).val[1] :
        x \in {y \in InfoMembers \X ItemsMembers \X SummaryMembers \X ScoresMembers \X {1, 2} :
                  ~Raised(ObjectAnswer(y[1], y[2], y[3], y[4], y[5]))}}

SomeOCRResult ==
    ObjectAnswer([t |-> "map", keys |-> TRUE, invoice_number |-> "INV-1",
                  invoice_date |-> 1, due_date |-> 2],
                 [t |-> "map", list |-> <<>>],
                 [t |-> "map", total_amount_due |-> "num"],
                 [t |-> "map", overall |-> 92, has_overall |-> TRUE], 2).val[1]

GoodItem == [quantity |-> 2, unit_price |-> 1000, discount_percentage |-> 0, tax_rate |-> 10]
ZeroQuantity == [quantity |-> 0, unit_price |-> 1000, discount_percentage |-> 0, tax_rate |-> 10]
NegativePrice == [quantity |-> 1, unit_price |-> -100, discount_percentage |-> 0, tax_rate |-> 0]

\* ProcessedInvoice instances the Validation stage is run on.
StageInvoices ==
    {[invoice_number |-> n, invoice_date |-> d[1], due_date |-> d[2],
      seller |-> sb, buyer |-> [name |-> "Buyer", email |-> ""],
      items |-> it, summary |-> su, payment_terms |-> pt, ocr_confidence |-> 92] :
        n \in {<<>>, <<"A", "-", "1">>, <<"a", " ">>},
        d \in {<<1, 2>>, <<2, 1>>, <<0, 0>>},
        sb \in {[name |-> "Acme", email |-> "a@b.co"], [name |-> "", email |-> "a@b"]},
        it \in {<<>>, <<GoodItem>>, <<ZeroQuantity>>, <<GoodItem, NegativePrice>>},
        su \in {[subtotal |-> 2000, total_tax |-> 200], [subtotal |-> 2000, total_tax |-> 500],
                [subtotal |-> 2010, total_tax |-> 200], [subtotal |-> 2009, total_tax |-> 200],
                [subtotal |-> 2000, total_tax |-> 190]},
        pt \in {"", "NET30"}}

\* ValidationResult values of the declared type, whether or not the
\* validator would produce them.
ValidationResults ==
    [is_valid : BOOLEAN,
     errors : {<<>>, <<Msg(0, "Invoice number is required")>>},
     warnings : {<<>>, <<"Invoice date is missing">>},
     suggestions : {<<>>}]

PassedValidation ==
    [is_valid |-> TRUE, errors |-> <<>>, warnings |-> <<>>, suggestions |-> <<>>]

\* The list channels as an earlier writer may have left them.
Earlier(s) ==
    [s EXCEPT !.errors = <<ErrorEntry("Earlier Error:", "earlier")>>,
              !.processing_logs = <<LogEntry("EARLIER", "success")>>,
              !.query_results = <<[query |-> "earlier", result |-> Some("summary"),
                                   execution_time |-> 0, success |-> TRUE,
                                   error_message |-> None]>>]

WithLists(S) == S \cup {Earlier(s) : s \in S}

FineLLM == [generate |-> "sql", summarize |-> "text"]

AtOcr ==
    /\ pc = "perform_ocr"
    /\ state \in WithLists({Inputs(p, q) : p \in ImagePaths, q \in UserQueries})
    /\ ocr_response \in OcrResponses
    /\ pydantic_major \in {1, 2}
    /\ db_rejects = "none" /\ llm = FineLLM /\ db = NoRows

AtMapping ==
    /\ pc = "process_invoice_data"
    /\ state \in WithLists(
          {[Inputs("invoice.png", None) EXCEPT !.ocr_status = "completed", !.ocr_result = r] :
              r \in {None} \cup {Some(x) : x \in OCRResults}})
    /\ ocr_response = BlankAnswer("fault") /\ pydantic_major = 2
    /\ db_rejects = "none" /\ llm = FineLLM /\ db = NoRows

AtValidation ==
    /\ pc = "validate_invoice"
    /\ state \in WithLists(
          {[Inputs("invoice.png", q) EXCEPT !.ocr_status = "completed", !.ocr_result = r,
                                            !.processed_invoice = pv[1],
                                            !.validation_result = pv[2]] :
              q \in UserQueries,
              r \in {None, Some(SomeOCRResult)},
              pv \in {<<Some(i), None>> : i \in StageInvoices}
                     \cup {<<None, v>> : v \in {None} \cup {Some(x) : x \in ValidationResults}}})
    /\ ocr_response = BlankAnswer("fault") /\ pydantic_major = 2
    /\ db_rejects \in {"none", "invoices"} /\ llm = FineLLM /\ db = NoRows

AtPersistence ==
    /\ pc = "save_to_database"
    /\ state \in WithLists(
          {[Inputs("invoice.png", q) EXCEPT !.ocr_status = "completed", !.ocr_result = r,
                                            !.validation_result = Some(PassedValidation)] :
              q \in UserQueries,
              r \in {None} \cup {Some(x) : x \in OCRResults}})
    /\ ocr_response = BlankAnswer("fault") /\ pydantic_major = 2
    /\ db_rejects \in DbRejects /\ llm = FineLLM /\ db \in {NoRows, OneInvoice}

AtQuery ==
    /\ pc = "process_user_query"
    /\ state \in WithLists(
          {[Inputs("invoice.png", q) EXCEPT !.ocr_status = "completed",
                                            !.ocr_result = Some(SomeOCRResult),
                                            !.validation_result = Some(PassedValidation),
                                            !.db_status = "failed"] :
              q \in UserQueries})
    /\ ocr_response = BlankAnswer("fault") /\ pydantic_major = 2
    /\ db_rejects \in {"none", "connect", "query"} /\ llm \in LLMs
    /\ db \in {NoRows, OneInvoice}

StageInit ==
    /\ executed = <<>>
    /\ route = ""
    /\ escaped = NoExc
    /\ last_save = NoSave
    /\ last_validate = NoValidate
    /\ runs = NoRuns
    /\ pool = NoPool
    /\ sql = NoSql
    /\ (AtOcr \/ AtMapping \/ AtValidation \/ AtPersistence \/ AtQuery)

StageNext ==
    \/ PerformOcr
    \/ ProcessInvoiceData
    \/ ValidateInvoice
    \/ SaveToDatabase
    \/ ProcessUserQuery
    \/ ReturnResult

StageSpec == StageInit /\ [][StageNext]_vars


\* ------------------------------------------------ save_invoice called alone
\* The mapping save_invoice is written for: the OCR answer's own keys.
InvoiceDicts ==
    {[invoice_info |-> i, summary |-> su, confidence_scores |-> sc, items |-> it,
      seller |-> J(se), buyer |-> J("map"), payment |-> J("map"), additional |-> J(ad)] :
        i \in {x \in InfoMembers : x.t \in {"map", "absent"} /\ x.invoice_number # ""},
        su \in {x \in SummaryMembers : x.total_amount_due # "null"},
        sc \in {x \in ScoresMembers : x.overall = 92},
        it \in ItemsMembers,
        se \in {"map", "absent"},
        ad \in {"map", "null"}}

\* await supabase_tool.save_invoice(invoice_data), outside any workflow run.
SaveInvoiceCall ==
    /\ pc = "save_invoice"
    /\ Cardinality(AllIds(db)) < MaxInvoices
    /\ \E invoice_data \in InvoiceDicts :
          LET saved == save_invoice(invoice_data, db_rejects, db) IN
          /\ db' = saved.db
          /\ last_save' = [called |-> TRUE, raised |-> Raised(saved), ran |-> saved.ran,
                           invoice_id |-> IF Raised(saved) THEN 0 ELSE saved.val[1]]
    /\ UNCHANGED <<state, pc, executed, route, escaped, ocr_response, db_rejects, llm,
                   pydantic_major, last_validate, runs, pool, sql>>

AtSaveInvoice ==
    /\ pc = "save_invoice"
    /\ state = Inputs("", None)
    /\ ocr_response = BlankAnswer("fault") /\ pydantic_major = 2
    /\ db_rejects \in DbRejects /\ llm = FineLLM /\ db \in {NoRows, OneInvoice}

PersistInit ==
    /\ executed = <<>>
    /\ route = ""
    /\ escaped = NoExc
    /\ last_save = NoSave
    /\ last_validate = NoValidate
    /\ runs = NoRuns
    /\ pool = NoPool
    /\ sql = NoSql
    /\ (AtPersistence \/ AtSaveInvoice)

PersistNext ==
    \/ SaveInvoiceCall
    \/ SaveToDatabase
    \/ ProcessUserQuery
    \/ ReturnResult

PersistSpec == PersistInit /\ [][PersistNext]_vars



\* ------------------------------------------- concurrent process_invoice calls
\* One InvoiceProcessingWorkflow serves every request: the compiled graph and
\* the InvoiceProcessingNodes with their tools are shared, while each call
\* of process_invoice builds its own inputs and ainvoke keeps the state of
\* that call.  A stage reads its state on entry and returns its update at
\* the end, so a stage execution is one step here and the steps of
\* different calls interleave freely.
ConcPaths == {"invoice.png", "other.png"}

ConcResponses ==
    {BlankAnswer("fault"),
     Answer("object",
            [t |-> "map", keys |-> TRUE, invoice_number |-> "INV-1", invoice_date |-> 1, due_date |-> 2],
            [t |-> "map", list |-> <<>>],
            [t |-> "map", total_amount_due |-> "num"],
            [t |-> "map", overall |-> 92, has_overall |-> TRUE]),
     Answer("object",
            [t |-> "map", keys |-> TRUE, invoice_number |-> "INV-1", invoice_date |-> 1, due_date |-> 2],
            [t |-> "list", list |-> <<[quantity |-> "num"]>>],
            [t |-> "map", total_amount_due |-> "num"],
            [t |-> "map", overall |-> 92, has_overall |-> TRUE])}

RunIds == 1..MaxRuns

IdleRun(resp) ==
    [inputs |-> Inputs("", None), state |-> Inputs("", None), pc |-> "idle",
     executed |-> <<>>, escaped |-> NoExc, ocr_response |-> resp]

\* Mutant: the workflow keeps one state for all its calls.
ConcState_shared(r) == runs[1].state

\* The state ainvoke hands to the stages of call r.
ConcState(r) == runs[r].state

ConcStart(r) ==
    /\ runs[r].pc = "idle"
    /\ \E image_path \in ConcPaths, user_query \in UserQueries :
          runs' = [runs EXCEPT ![r] = [@ EXCEPT !.inputs = Inputs(image_path, user_query),
                                                !.state = Inputs(image_path, user_query),
                                                !.pc = EntryPoint]]
    /\ UNCHANGED <<state, pc, executed, route, escaped, ocr_response, db_rejects, llm,
                   pydantic_major, db, last_save, last_validate, pool, sql>>

ConcStep(r) ==
    /\ runs[r].pc \in Nodes
    /\ LET node == runs[r].pc
           s == ConcState(r)
           res == NodeCall(node, s, runs[r].ocr_response, db) IN
       /\ runs' = [runs EXCEPT ![r] =
             IF res.escaped # NoExc
             THEN [@ EXCEPT !.pc = "raised", !.escaped = res.escaped,
                            !.executed = Append(@, node)]
             ELSE LET merged == Merge(s, res.update) IN
                  [@ EXCEPT !.state = merged,
                            !.pc = Target(node, Decision(node, merged)),
                            !.executed = Append(@, node)]]
       /\ db' = IF node = "save_to_database"
                THEN save_invoice(SaveArgument(s), db_rejects, db).db
                ELSE db
    /\ UNCHANGED <<state, pc, executed, route, escaped, ocr_response, db_rejects, llm,
                   pydantic_major, last_save, last_validate, pool, sql>>

ConcReturn(r) ==
    /\ runs[r].pc = "END"
    /\ runs' = [runs EXCEPT ![r].pc = "returned"]
    /\ UNCHANGED <<state, pc, executed, route, escaped, ocr_response, db_rejects, llm,
                   pydantic_major, db, last_save, last_validate, pool, sql>>

ConcInit ==
    /\ state = Inputs("", None)
    /\ pc = "concurrent"
    /\ executed = <<>>
    /\ route = ""
    /\ escaped = NoExc
    /\ ocr_response = BlankAnswer("fault")
    /\ db_rejects = "none"
    /\ llm = FineLLM
    /\ pydantic_major = 2
    /\ db = NoRows
    /\ last_save = NoSave
    /\ last_validate = NoValidate
    /\ pool = NoPool
    /\ sql = NoSql
    /\ runs \in [RunIds -> {IdleRun(resp) : resp \in ConcResponses}]

ConcNext == \E r \in RunIds : ConcStart(r) \/ ConcStep(r) \/ ConcReturn(r)

ConcSpec == ConcInit /\ [][ConcNext]_vars

\* The final state of a call that runs alone: the graph from node on, on
\* state s, with the OCR answer resp and the database d.
RECURSIVE RunAlone(_, _, _, _)
RunAlone(node, s, resp, d) ==
    IF node \notin Nodes THEN s
    ELSE LET res == NodeCall(node, s, resp, d) IN
         IF res.escaped # NoExc THEN s
         ELSE LET merged == Merge(s, res.update) IN
              RunAlone(Target(node, Decision(node, merged)), merged, resp,
                       IF node = "save_to_database"
                       THEN save_invoice(SaveArgument(s), db_rejects, d).db
                       ELSE d)


\* ------------------------------------------- concurrent save_invoice calls
\* SupabaseTool.save_invoice as its callers overlap: init_pool tests
\* self.pool and awaits create_pool when it is None, the call then waits
\* for a connection of the pool it found, runs its statements inside the
\* transaction and leaves both async with blocks.  The calls are counted
\* by where they are, not told apart.
max_size == 10

GoodInvoice ==
    [invoice_info      |-> [t |-> "map", keys |-> TRUE, invoice_number |-> "INV-1",
                            invoice_date |-> 1, due_date |-> 2],
     summary           |-> [t |-> "map", total_amount_due |-> "num"],
     confidence_scores |-> [t |-> "map", overall |-> 92, has_overall |-> TRUE],
     items             |-> [t |-> "list", list |-> <<[quantity |-> "num"]>>],
     seller            |-> J("map"),
     buyer             |-> J("map"),
     payment           |-> J("map"),
     additional        |-> J("map")]

\* "additional": null makes the metadata INSERT's argument evaluation fail,
\* after the earlier statements have run.
BadInvoice == [GoodInvoice EXCEPT !.additional = J("null")]

PoolInvoices == {GoodInvoice, BadInvoice}

\* Mutant: the connection goes back to the pool on a normal return only.
Release_onreturn(held, raised) == IF raised THEN held ELSE held - 1

\* async with self.pool.acquire() as conn: leaving the block, by return or
\* by exception, hands the connection back.
Release(held, raised) == held - 1

\* await self.init_pool(), up to its test of self.pool, and for a call that
\* finds a pool the start of self.pool.acquire(): the call takes a free
\* connection at once, or queues when max_size are checked out.  A call
\* that finds no pool goes on to create one.
CallSaveInvoice ==
    /\ pc = "pool"
    /\ pool.started < MaxCalls
    /\ IF pool.current = 0
       THEN /\ pool.creating + Len(pool.pools) < MaxPools
            /\ pool' = [pool EXCEPT !.started = @ + 1, !.creating = @ + 1]
       ELSE IF pool.pools[pool.current].held < max_size
            THEN pool' = [pool EXCEPT !.started = @ + 1,
                                      !.pools[pool.current].held = @ + 1]
            ELSE pool' = [pool EXCEPT !.started = @ + 1,
                                      !.pools[pool.current].waiting = @ + 1]
    /\ UNCHANGED <<state, pc, executed, route, escaped, ocr_response, db_rejects, llm,
                   pydantic_major, db, last_save, last_validate, runs, sql>>

\* self.pool = await asyncpg.create_pool(..., max_size=10): the new pool
\* replaces whatever self.pool held, and its creator takes the first
\* connection; a refused connection leaves save_invoice with the
\* exception, before any connection is acquired.
CreatePool ==
    /\ pc = "pool"
    /\ pool.creating > 0
    /\ IF db_rejects = "connect"
       THEN pool' = [pool EXCEPT !.creating = @ - 1, !.done = @ + 1,
                                 !.last_exit = [called |-> TRUE, raised |-> TRUE,
                                                acquired |-> FALSE]]
       ELSE pool' = [pool EXCEPT !.creating = @ - 1,
                                 !.pools = Append(@, [waiting |-> 0, held |-> 1]),
                                 !.current = Len(pool.pools) + 1]
    /\ UNCHANGED <<state, pc, executed, route, escaped, ocr_response, db_rejects, llm,
                   pydantic_major, db, last_save, last_validate, runs, sql>>

\* pool.acquire() of a queued call: it gets a connection once the pool has
\* fewer than max_size checked out.
Acquire(k) ==
    /\ pool.pools[k].waiting > 0
    /\ pool.pools[k].held < max_size
    /\ pool' = [pool EXCEPT !.pools[k].waiting = @ - 1, !.pools[k].held = @ + 1]
    /\ UNCHANGED <<state, pc, executed, route, escaped, ocr_response, db_rejects, llm,
                   pydantic_major, db, last_save, last_validate, runs, sql>>

\* The body of save_invoice and its exit: the statements run, the
\* transaction commits or rolls back, the connection is handed back.
ExitSave(k) ==
    /\ pool.pools[k].held > 0
    /\ \E invoice_data \in PoolInvoices :
          LET saved == save_invoice(invoice_data, db_rejects, db) IN
          /\ Raised(saved) \/ Cardinality(AllIds(db)) < MaxInvoices
          /\ db' = saved.db
          /\ last_save' = [called |-> TRUE, raised |-> Raised(saved), ran |-> saved.ran,
                           invoice_id |-> IF Raised(saved) THEN 0 ELSE saved.val[1]]
          /\ pool' = [pool EXCEPT !.pools[k].held = Release(@, Raised(saved)),
                                  !.done = @ + 1,
                                  !.last_exit = [called |-> TRUE, raised |-> Raised(saved),
                                                 acquired |-> TRUE]]
    /\ UNCHANGED <<state, pc, executed, route, escaped, ocr_response, db_rejects, llm,
                   pydantic_major, last_validate, runs, sql>>

AcquireConnection == pc = "pool" /\ \E k \in DOMAIN pool.pools : Acquire(k)
ExitSaveInvoice == pc = "pool" /\ \E k \in DOMAIN pool.pools : ExitSave(k)

PoolInit ==
    /\ state = Inputs("", None)
    /\ pc = "pool"
    /\ executed = <<>>
    /\ route = ""
    /\ escaped = NoExc
    /\ ocr_response = BlankAnswer("fault")
    /\ db_rejects \in {"none", "connect", "invoice_items"}
    /\ llm = FineLLM
    /\ pydantic_major = 2
    /\ db = NoRows
    /\ last_save = NoSave
    /\ last_validate = NoValidate
    /\ runs = NoRuns
    /\ pool = NoPool
    /\ sql = NoSql

PoolNext == CallSaveInvoice \/ CreatePool \/ AcquireConnection \/ ExitSaveInvoice

PoolSpec == PoolInit /\ [][PoolNext]_vars

\* ------------------------------------------------ questions asked of the API
\* SQL statements, as an LLM may write them or a caller may pass them.
SqlStatements ==
    {<<"SELECT", "*", "FROM", "invoices">>,
     <<"select", "*", "FROM", "invoices">>,
     <<"select*", "FROM", "invoices">>,
     <<"SELECT", "*", "FROM", "sql_rows">>,
     <<"SELECT", "1", ";", "DELETE", "FROM", "invoices">>,
     <<"WITH", "t", "AS", "(", "SELECT", "1", ")", "SELECT", "*", "FROM", "t">>,
     <<"DELETE", "FROM", "invoices">>,
     <<"delete", "FROM", "invoices">>,
     <<"DROP", "TABLE", "invoices">>,
     <<"CREATE", "TABLE", "t">>,
     <<"Sorry">>,
     <<>>}

Fenced(text) == <<"<fence>", "sql", "\n">> \o text \o <<"\n", "<fence>">>
Padded(text) == <<" ", "\n">> \o text \o <<"\n", " ">>
Explained(text) ==
    <<"Here", "is", "the", "query", ":", "\n">> \o text \o <<"\n", "It", "lists", "invoices">>

\* Texts the LLM may answer with: bare, fenced, padded, explained, or a
\* statement on the line before a SELECT.
LlmTexts ==
    SqlStatements
    \cup {Fenced(t) : t \in SqlStatements}
    \cup {Padded(t) : t \in SqlStatements}
    \cup {Explained(t) : t \in SqlStatements}
    \cup {Explained(Fenced(t)) : t \in SqlStatements}
    \cup {<<"DELETE", "FROM", "invoices", ";", "\n", "SELECT", "1">>}

\* query = await self.generate_query(question), inside answer_question's try
GenerateQuery ==
    /\ pc = "generate_query"
    /\ IF llm.generate = "fault"
       THEN /\ sql' = [sql EXCEPT !.answer = "Error processing query"]
            /\ pc' = "answered"
       ELSE /\ sql' = [sql EXCEPT !.query = generate_query(sql.text), !.generated = TRUE]
            /\ pc' = "execute_query"
    /\ UNCHANGED <<state, executed, route, escaped, ocr_response, db_rejects, llm,
                   pydantic_major, db, last_save, last_validate, runs, pool>>

\* SupabaseTool.execute_query(query), called by answer_question through
\* InvoiceSQLAgent.execute_query or by a caller with a query of its own.
ExecuteQuery ==
    /\ pc = "execute_query"
    /\ LET r == SupabaseTool_execute_query(sql.query, db_rejects, db) IN
       /\ sql' = [sql EXCEPT !.called = TRUE,
                             !.raised = Raised(r),
                             !.branch = r.branch,
                             !.fault = r.fault,
                             !.result = r.val,
                             !.before = Cardinality(db["invoices"])]
       /\ db' = r.db
    /\ pc' = IF sql.generated THEN "summarize" ELSE "done"
    /\ UNCHANGED <<state, executed, route, escaped, ocr_response, db_rejects, llm,
                   pydantic_major, last_save, last_validate, runs, pool>>

\* The rest of answer_question: the error and no-data answers, the summary
\* the LLM writes, and the except clause around all of it.
Summarize ==
    /\ pc = "summarize"
    /\ sql' = [sql EXCEPT !.answer =
                 CASE sql.raised                 -> "Error processing query"
                   [] ~sql.result[1].success     -> "Error executing query"
                   [] sql.result[1].data \in {None, Some(0)}
                                                 -> "No data found for your query."
                   [] llm.summarize = "fault"    -> "Error processing query"
                   [] OTHER                      -> "summary"]
    /\ pc' = "answered"
    /\ UNCHANGED <<state, executed, route, escaped, ocr_response, db_rejects, llm,
                   pydantic_major, db, last_save, last_validate, runs, pool>>

QueryInit ==
    /\ state = Inputs("", None)
    /\ executed = <<>>
    /\ route = ""
    /\ escaped = NoExc
    /\ ocr_response = BlankAnswer("fault")
    /\ pydantic_major = 2
    /\ db_rejects \in {"none", "connect", "query"}
    /\ db \in {NoRows, OneInvoice}
    /\ last_save = NoSave
    /\ last_validate = NoValidate
    /\ runs = NoRuns
    /\ pool = NoPool
    /\ \/ /\ pc = "generate_query"
          /\ llm \in LLMs
          /\ sql \in {[NoSql EXCEPT !.text = t] : t \in LlmTexts}
       \/ /\ pc = "execute_query"
          /\ llm = FineLLM
          /\ sql \in {[NoSql EXCEPT !.query = q] :
                         q \in SqlStatements \cup {Padded(t) : t \in SqlStatements}}

QueryNext == GenerateQuery \/ ExecuteQuery \/ Summarize

QuerySpec == QueryInit /\ [][QueryNext]_vars

\* ----------------------------------------------------------- POST /query
\* Texts the two LLM calls of one request may answer with.
ApiTexts ==
    {<<"SELECT", "*", "FROM", "invoices">>,
     <<"select*", "FROM", "invoices">>,
     Fenced(<<"SELECT", "*", "FROM", "invoices">>),
     Explained(Fenced(<<"SELECT", "*", "FROM", "sql_rows">>)),
     <<"DELETE", "FROM", "invoices">>,
     <<"Sorry">>}

\* sql_query = await sql_agent.generate_query(request.query): the handler's
\* own LLM call; an exception takes the handler to its except clause.
QueryInvoices ==
    /\ pc = "query_invoices"
    /\ IF llm.generate = "fault"
       THEN /\ sql' = [sql EXCEPT !.success = FALSE]
            /\ pc' = "responded"
       ELSE /\ sql' = [sql EXCEPT !.sql_generated = Some(generate_query(sql.api_text))]
            /\ pc' = "generate_query"
    /\ UNCHANGED <<state, executed, route, escaped, ocr_response, db_rejects, llm,
                   pydantic_major, db, last_save, last_validate, runs, pool>>

\* QueryResponse(answer=answer, sql_generated=sql_query, success=True)
Respond ==
    /\ pc = "answered"
    /\ sql' = [sql EXCEPT !.success = TRUE]
    /\ pc' = "responded"
    /\ UNCHANGED <<state, executed, route, escaped, ocr_response, db_rejects, llm,
                   pydantic_major, db, last_save, last_validate, runs, pool>>

ApiInit ==
    /\ state = Inputs("", None)
    /\ executed = <<>>
    /\ route = ""
    /\ escaped = NoExc
    /\ ocr_response = BlankAnswer("fault")
    /\ pydantic_major = 2
    /\ db_rejects \in {"none", "connect", "query"}
    /\ db \in {NoRows, OneInvoice}
    /\ last_save = NoSave
    /\ last_validate = NoValidate
    /\ runs = NoRuns
    /\ pool = NoPool
    /\ pc = "query_invoices"
    /\ llm \in LLMs
    /\ sql \in {[NoSql EXCEPT !.api_text = first, !.text = second] :
                   first \in ApiTexts, second \in ApiTexts}

ApiNext == QueryInvoices \/ GenerateQuery \/ ExecuteQuery \/ Summarize \/ Respond

ApiSpec == ApiInit /\ [][ApiNext]_vars

\* ================================================================== claims
Last(q) == q[Len(q)]
Ended == pc \in {"END", "returned"}

\* Position i of executed is followed by node: node is about to run or ran next.
FollowedBy(i, node) ==
    \/ i = Len(executed) /\ pc = node
    \/ i < Len(executed) /\ executed[i + 1] = node

\* Position i of executed is where the run stopped, at END.
StoppedAt(i) == i = Len(executed) /\ Ended

\* C1: every step of every stage, succeeding or faulting, leaves errors,
\* processing_logs and query_results with their earlier value as a prefix.
C1_AppendOnly ==
    [][\A f \in ListFields : IsPrefix(state[f], state'[f])]_vars

C1_Witness ==
    /\ executed # <<>>
    /\ Len(state.errors) >= 2
    /\ Len(state.processing_logs) >= 2
    /\ state.errors[1].prefix = "Earlier Error:"

\* C2: no exception leaves a stage function, whatever the OCR service, the
\* mapping, the validator, the database and the agent do; and a run that has
\* ended did so after process_user_query or because the decision predicate
\* of its last stage chose END.
C2_FaultContainment ==
    /\ escaped = NoExc
    /\ pc # "raised"
    /\ (Ended /\ executed # <<>>) =>
          \/ Last(executed) = "process_user_query"
          \/ Last(executed) = "perform_ocr" /\ route = "ocr_failed"
          \/ Last(executed) = "validate_invoice" /\ route = "validation_failed"
          \/ Last(executed) = "save_to_database" /\ route = "skip_query"

C2_Witness ==
    /\ pc = "returned"
    /\ executed = <<"validate_invoice", "save_to_database", "process_user_query">>
    /\ state.db_status = "failed"
    /\ Len(state.errors) >= 1
    /\ Len(state.query_results) >= 1

\* C3 as stated: after validate_invoice the outcome is validation_failed
\* exactly when validation_result is absent or its errors list is non-empty,
\* whatever is_valid.
C3_AsStated ==
    (executed # <<>> /\ Last(executed) = "validate_invoice") =>
        (route = "validation_failed"
            <=> (~IsSet(state.validation_result)
                 \/ state.validation_result[1].errors # <<>>))

\* C3 amended: the outcome is validation_failed when validation_result is
\* absent or has a non-empty errors list with is_valid false; it leads to
\* save_to_database when validation_result is present with an empty errors
\* list, whatever is_valid, and also when is_valid is true with errors.
C3_ValidationRouting ==
    (executed # <<>> /\ Last(executed) = "validate_invoice") =>
        LET v == state.validation_result IN
        /\ (~IsSet(v) \/ (v[1].errors # <<>> /\ ~v[1].is_valid))
              => (route = "validation_failed" /\ Ended)
        /\ (IsSet(v) /\ v[1].errors = <<>>)
              => (route \in {"validation_passed", "validation_warning"}
                  /\ pc = "save_to_database")
        /\ (IsSet(v) /\ v[1].is_valid)
              => (route = "validation_passed" /\ pc = "save_to_database")

C3_Witness ==
    /\ executed = <<"validate_invoice">>
    /\ route = "validation_warning"
    /\ pc = "save_to_database"
    /\ ~state.validation_result[1].is_valid
    /\ state.validation_result[1].errors = <<>>

\* C4: after perform_ocr the run goes on to process_invoice_data exactly when
\* ocr_status is completed; otherwise it ends with no further stage.
C4_OcrRouting ==
    (executed # <<>> /\ executed[1] = "perform_ocr") =>
        IF state.ocr_status = "completed"
        THEN FollowedBy(1, "process_invoice_data")
        ELSE StoppedAt(1)

C4_Witness ==
    /\ Len(executed) >= 2
    /\ executed[1] = "perform_ocr"
    /\ executed[2] = "process_invoice_data"
    /\ state.ocr_status = "completed"

\* C5: after save_to_database, process_user_query runs exactly when
\* user_query is neither None nor the empty string; otherwise the run ends.
C5_QueryRouting ==
    \A i \in 1..Len(executed) :
        executed[i] = "save_to_database" =>
            IF state.user_query # None /\ state.user_query # Some("")
            THEN FollowedBy(i, "process_user_query")
            ELSE StoppedAt(i)

C5_Witness ==
    /\ Len(executed) >= 2
    /\ executed[Len(executed) - 1] = "save_to_database"
    /\ Last(executed) = "process_user_query"
    /\ Ended

\* C6: the verdict validate returns has is_valid true exactly when its
\* errors list is empty, whatever warnings and suggestions hold.
C6_Verdict ==
    last_validate.called =>
        (last_validate.output[1].is_valid <=> last_validate.output[1].errors = <<>>)

C6_Witness ==
    /\ last_validate.called
    /\ last_validate.output[1].is_valid
    /\ last_validate.output[1].warnings # <<>>
    /\ last_validate.output[1].suggestions # <<>>


\* C7: when a sub-insert of save_invoice fails, the committed rows are those
\* from before the call, in all eight tables; and when save_to_database made
\* the call, the state has db_status = failed, one more errors entry, which
\* starts with "Database Error:", and no invoice_id.
C7_AtomicPersistence ==
    [][(pc \in {"save_to_database", "save_invoice"} /\ last_save'.raised) =>
          /\ db' = db
          /\ pc = "save_to_database" =>
                /\ state'.db_status = "failed"
                /\ state'.invoice_id = None
                /\ Len(state'.errors) = Len(state.errors) + 1
                /\ state'.errors[Len(state'.errors)].prefix = "Database Error:"]_vars

C7_Witness ==
    /\ db_rejects = "invoice_summary"
    /\ last_save.called
    /\ last_save.raised
    /\ last_save.ran >= 4

\* C8: a run whose OCR answer is complete and well formed (confidence 92),
\* whose database accepts every statement and which has no user_query
\* executes the four stages in order and returns db_status = saved, an
\* invoice_id and no errors.
C8_ScenarioA ==
    (/\ pc = "returned"
     /\ WellFormed(ocr_response)
     /\ ocr_response.confidence_scores.overall = 92
     /\ db_rejects = "none"
     /\ ~Truthy(state.user_query)) =>
        /\ executed = <<"perform_ocr", "process_invoice_data", "validate_invoice",
                        "save_to_database">>
        /\ state.db_status = "saved"
        /\ IsSet(state.invoice_id)
        /\ state.errors = <<>>

\* C9: when the OCR call faults, perform_ocr is the only stage executed and
\* the run ends with ocr_status = failed, nothing else set, db_status
\* pending, no query result and exactly one error, an "OCR Error:".
C9_ScenarioB ==
    (ocr_response.kind = "fault" /\ executed # <<>>) =>
        /\ executed = <<"perform_ocr">>
        /\ Ended
        /\ route = "ocr_failed"
        /\ state.ocr_status = "failed"
        /\ state.ocr_result = None
        /\ state.processed_invoice = None
        /\ state.validation_result = None
        /\ state.invoice_id = None
        /\ state.db_status = "pending"
        /\ state.query_results = <<>>
        /\ Len(state.errors) = 1
        /\ state.errors[1].prefix = "OCR Error:"

C9_Witness ==
    /\ pc = "returned"
    /\ ocr_response.kind = "fault"
    /\ executed = <<"perform_ocr">>
    /\ Len(state.errors) = 1

\* The query results this run appended (Earlier's entry is not among them).
Appended(results) == SelectSeq(results, LAMBDA r : r.query # "earlier")

\* C10: when validate_invoice produced a result with no errors and at least
\* one warning or suggestion, save_to_database runs next; with a non-empty
\* user_query, process_user_query runs after it and the run ends with
\* exactly one QueryResult appended.
C10_ScenarioC ==
    \A i \in 1..Len(executed) :
        (/\ executed[i] = "validate_invoice"
         /\ last_validate.called
         /\ last_validate.output[1].errors = <<>>
         /\ \/ last_validate.output[1].warnings # <<>>
            \/ last_validate.output[1].suggestions # <<>>) =>
            /\ FollowedBy(i, "save_to_database")
            /\ (Truthy(state.user_query) /\ Ended) =>
                  /\ Len(executed) = i + 2
                  /\ executed[i + 2] = "process_user_query"
                  /\ Len(Appended(state.query_results)) = 1
                  /\ Appended(state.query_results)[1].query = state.user_query[1]

C10_Witness ==
    /\ pc = "returned"
    /\ executed = <<"validate_invoice", "save_to_database", "process_user_query">>
    /\ last_validate.called
    /\ last_validate.output[1].errors = <<>>
    /\ last_validate.output[1].warnings # <<>>
    /\ Truthy(state.user_query)
    /\ Len(Appended(state.query_results)) = 1

\* C11 as stated: a stage about to execute finds the field its predecessor
\* is responsible for: process_invoice_data finds ocr_result,
\* validate_invoice finds processed_invoice, save_to_database finds
\* validation_result.
C11_StageOrder ==
    /\ pc = "process_invoice_data" => IsSet(state.ocr_result)
    /\ pc = "validate_invoice" => IsSet(state.processed_invoice)
    /\ pc = "save_to_database" => IsSet(state.validation_result)

FailedLogs(logs) == {i \in DOMAIN logs : logs[i].status = "failed"}

\* C12 as stated: a run that has ended holds as many failed log entries as
\* errors entries, one of each for every stage that caught a fault.
C12_FaultsRecordedTwice ==
    Ended => Cardinality(FailedLogs(state.processing_logs)) = Len(state.errors)

\* The stage that assigns each scalar field of the state.
Writer(f) ==
    CASE f \in {"ocr_result", "ocr_status"} -> "perform_ocr"
      [] f = "processed_invoice"            -> "process_invoice_data"
      [] f = "validation_result"            -> "validate_invoice"
      [] f \in {"invoice_id", "db_status"}  -> "save_to_database"

WrittenOnce == {"ocr_result", "ocr_status", "processed_invoice",
                "validation_result", "invoice_id", "db_status"}

\* C13: a step changes ocr_result, ocr_status, processed_invoice,
\* validation_result, invoice_id or db_status only when it is the one
\* execution of the stage that assigns the field: no stage that ran before
\* is run again, and no other stage changes the field afterwards.
C13_ScalarWriteOnce ==
    [][\A f \in WrittenOnce :
          state'[f] # state[f] =>
              /\ pc = Writer(f)
              /\ \A i \in 1..Len(executed) : executed[i] # Writer(f)]_vars

C13_Witness ==
    /\ executed = <<"perform_ocr", "process_invoice_data", "validate_invoice">>
    /\ Ended
    /\ state.ocr_status = "completed"
    /\ IsSet(state.ocr_result)
    /\ Len(state.errors) >= 2

\* The question was actually answered: the agent generated the SQL, ran it
\* and summarised the rows, or found no rows.
Answered(tool, model, rejects, d) ==
    answer_question("total due?", tool, model, rejects, d)
        \in {"summary", "No data found for your query."}

\* C15 as stated: after process_user_query handled a non-empty user_query,
\* a question that was not answered leaves a QueryResult with success false
\* and error_message set and a "Query Error:" entry, and a QueryResult with
\* success true is appended only for an answered question.
C15_QueryFaultReporting ==
    (/\ executed # <<>>
     /\ Last(executed) = "process_user_query"
     /\ Truthy(state.user_query)) =>
        /\ state.query_results # <<>>
        /\ LET q == Last(state.query_results) IN
           IF Answered(NodesAgentTool, llm, db_rejects, db)
           THEN q.success
           ELSE /\ ~q.success
                /\ IsSet(q.error_message)
                /\ state.errors # <<>>
                /\ Last(state.errors).prefix = "Query Error:"

\* The differences _validate_totals compares, in cents (rounded down).
SubtotalDiff(inv) ==
    Abs(SumSeq([i \in 1..Len(inv.items) |-> LineTotal(inv.items[i])])
        - inv.summary.subtotal * 100)

TaxDiff(inv) ==
    Abs(SumSeq([i \in 1..Len(inv.items) |-> LineTotal(inv.items[i]) * inv.items[i].tax_rate])
        - inv.summary.total_tax * 10000)

TotalsWarning == "Invoice totals may not add up correctly"

Warned(warnings) == \E i \in DOMAIN warnings : warnings[i] = TotalsWarning

\* C16 as stated: the validator warns about the totals exactly when the
\* subtotal or the tax differs from the recomputed one by more than 0.10.
C16_AsStated ==
    last_validate.called =>
        LET inv == last_validate.input[1] IN
        Warned(last_validate.output[1].warnings)
            <=> (\/ SubtotalDiff(inv) > Tolerance * 100
                 \/ TaxDiff(inv) > Tolerance * 10000)

\* C16 amended: the validator warns about the totals exactly when the
\* subtotal or the tax differs from the recomputed one by 0.10 or more; the
\* items [{qty 2, price 10.00, discount 0, tax 10}] give no warning with
\* subtotal 20.00 and total_tax 2.00, and one with total_tax 5.00.
C16_TotalsTolerance ==
    last_validate.called =>
        LET inv == last_validate.input[1]
            warned == Warned(last_validate.output[1].warnings) IN
        /\ warned <=> (\/ SubtotalDiff(inv) >= Tolerance * 100
                       \/ TaxDiff(inv) >= Tolerance * 10000)
        /\ (inv.items = <<GoodItem>> /\ inv.summary = [subtotal |-> 2000, total_tax |-> 200])
              => ~warned
        /\ (inv.items = <<GoodItem>> /\ inv.summary = [subtotal |-> 2000, total_tax |-> 500])
              => warned

C16_Witness ==
    /\ last_validate.called
    /\ last_validate.input[1].items = <<GoodItem>>
    /\ SubtotalDiff(last_validate.input[1]) = Tolerance * 100
    /\ TaxDiff(last_validate.input[1]) = 0
    /\ Warned(last_validate.output[1].warnings)

Ran(node) == \E i \in 1..Len(executed) : executed[i] = node

HasError(prefix) == \E i \in DOMAIN state.errors : state.errors[i].prefix = prefix

\* An OCRResult holding a complete extraction: the invoice's header with
\* its number, the summary with its total, the confidence scores.
CompleteExtraction(ocr_result) ==
    /\ ocr_result.invoice_info.t = "map"
    /\ ocr_result.invoice_info.keys
    /\ ocr_result.invoice_info.invoice_number # ""
    /\ ocr_result.total_info.t = "map"
    /\ ocr_result.total_info.total_amount_due = "num"
    /\ ocr_result.confidence_scores.t = "map"
    /\ ocr_result.confidence_scores.has_overall

\* C17 as stated: once save_to_database has run on a complete extraction
\* with a database that accepts every statement, invoice_id is set,
\* db_status is saved, a SAVE_DATABASE success entry is logged and no
\* "Database Error:" is recorded.
C17_PersistenceSuccess ==
    (/\ Ran("save_to_database")
     /\ IsSet(state.ocr_result)
     /\ CompleteExtraction(state.ocr_result[1])
     /\ db_rejects = "none") =>
        /\ IsSet(state.invoice_id)
        /\ state.db_status = "saved"
        /\ \E i \in DOMAIN state.processing_logs :
              state.processing_logs[i] = LogEntry("SAVE_DATABASE", "success")
        /\ ~HasError("Database Error:")

\* C18 as stated: after perform_ocr ran on an answer of the documented
\* shape, ocr_result is set, ocr_status is completed, the log holds exactly
\* the OCR success entry and errors is empty.
C18_OcrSuccess ==
    (executed = <<"perform_ocr">> /\ WellFormed(ocr_response)) =>
        /\ IsSet(state.ocr_result)
        /\ state.ocr_status = "completed"
        /\ state.processing_logs = <<LogEntry("OCR", "success")>>
        /\ state.errors = <<>>

\* C19 as stated: after process_invoice_data ran on a complete extraction,
\* processed_invoice is set and no "Processing Error:" is recorded.
C19_MappingSuccess ==
    (/\ Ran("process_invoice_data")
     /\ IsSet(state.ocr_result)
     /\ CompleteExtraction(state.ocr_result[1])) =>
        /\ IsSet(state.processed_invoice)
        /\ ~HasError("Processing Error:")

\* C14: whatever the interleaving of the calls in flight, a call that has
\* not started holds no state, and a call that has ended holds the final
\* state it reaches alone from its own inputs with its own OCR answer.
C14_RunIsolation ==
    \A r \in RunIds :
        /\ runs[r].pc = "idle" => runs[r].state = Inputs("", None)
        /\ runs[r].pc \in {"END", "returned"} =>
              runs[r].state = RunAlone(EntryPoint, runs[r].inputs, runs[r].ocr_response, db)

C14_Witness ==
    /\ runs[1].pc = "returned"
    /\ runs[2].pc = "returned"
    /\ runs[1].state.image_path # runs[2].state.image_path
    /\ runs[1].state.ocr_status = "failed"
    /\ runs[2].state.ocr_status = "completed"
    /\ Len(runs[1].state.errors) = 1
    /\ Len(runs[2].state.errors) = 2

RECURSIVE HeldIn(_)
HeldIn(pools) == IF pools = <<>> THEN 0 ELSE Head(pools).held + HeldIn(Tail(pools))

\* C20: no pool ever has more than max_size connections checked out; every
\* exit of save_invoice that had acquired a connection hands it back, after
\* a commit when it returns (rows of the new invoice are added, none
\* removed) and after a rollback when it raises (the database is as
\* before); once every call has completed no connection is checked out.
C20_ScopedConnection ==
    [][/\ \A k \in DOMAIN pool'.pools : pool'.pools[k].held <= max_size
       /\ pool'.done > pool.done =>
             /\ HeldIn(pool'.pools)
                   = HeldIn(pool.pools) - (IF pool'.last_exit.acquired THEN 1 ELSE 0)
             /\ pool'.last_exit.raised => db' = db
             /\ ~pool'.last_exit.raised =>
                   /\ db' # db
                   /\ \A t \in Tables : db[t] \subseteq db'[t]
       /\ (pool'.done = pool'.started /\ pool'.creating = 0) => HeldIn(pool'.pools) = 0
      ]_vars

C20_Witness ==
    /\ \E k \in DOMAIN pool.pools :
          pool.pools[k].held = max_size /\ pool.pools[k].waiting >= 1
    /\ pool.last_exit.called
    /\ pool.last_exit.acquired
    /\ pool.last_exit.raised
    /\ last_save.ran >= 4

\* The errors entries a stage writes when it is the one that stops the run.
StagePrefixes(node) ==
    CASE node = "perform_ocr"          -> {"OCR Error:"}
      [] node = "process_invoice_data" -> {"Processing Error:"}
      [] node = "validate_invoice"     -> {"Validation Error:", "Processing Error:"}
      [] node = "save_to_database"     -> {"Database Error:"}
      [] OTHER                         -> {"Query Error:"}

\* The stage at which a run stopped progressing: persistence when it ran
\* without saving, otherwise the last stage executed.
StoppingStage == IF Ran("save_to_database") THEN "save_to_database" ELSE Last(executed)

\* C21: every run that ends with db_status other than saved has a
\* non-empty errors list holding an entry of the stage at which it stopped
\* progressing (OCR, mapping, validation or persistence).
C21_ErrorsExplain ==
    (Ended /\ executed # <<>> /\ executed[1] # "process_user_query"
           /\ state.db_status # "saved")
        => \E i \in DOMAIN state.errors :
              state.errors[i].prefix \in StagePrefixes(StoppingStage)

\* The position of a stage in the pipeline.
Rank(node) ==
    CASE node = "perform_ocr"          -> 1
      [] node = "process_invoice_data" -> 2
      [] node = "validate_invoice"     -> 3
      [] node = "save_to_database"     -> 4
      [] node = "process_user_query"   -> 5

\* Stage executions so far are at most five, each stage at most once, in
\* pipeline order, and the stage about to run comes later than all of them.
InPipelineOrder ==
    /\ Len(executed) <= 5
    /\ \A i, j \in DOMAIN executed : i < j => Rank(executed[i]) < Rank(executed[j])
    /\ (pc \in Nodes /\ executed # <<>>) => Rank(Last(executed)) < Rank(pc)

\* C23: every run goes on to END (the stage about to run returns an update
\* instead of raising, and control is at a stage, at END or returned) after
\* at most five stage executions, each stage at most once, in the order
\* perform_ocr, process_invoice_data, validate_invoice, save_to_database,
\* process_user_query, whatever the collaborators return or raise.
C23_TerminationWithoutRetry ==
    /\ InPipelineOrder
    /\ pc \in Nodes \cup {"END", "returned"}
    /\ pc \in Nodes => RunNode(pc, state).escaped = NoExc

C23_Witness ==
    /\ pc = "returned"
    /\ executed = <<"validate_invoice", "save_to_database", "process_user_query">>
    /\ state.db_status = "failed"

\* The fields each stage's partial update may change.
Owned(node) ==
    CASE node = "perform_ocr" -> {"ocr_result", "ocr_status", "errors", "processing_logs"}
      [] node = "process_invoice_data" -> {"processed_invoice", "errors", "processing_logs"}
      [] node = "validate_invoice" -> {"validation_result", "errors", "processing_logs"}
      [] node = "save_to_database" -> {"invoice_id", "db_status", "errors", "processing_logs"}
      [] node = "process_user_query" -> {"query_results", "errors"}
      [] OTHER -> {}

\* C24: a step of a stage changes only fields the stage owns (perform_ocr:
\* ocr_result, ocr_status, errors, processing_logs; process_invoice_data:
\* processed_invoice, errors, processing_logs; validate_invoice:
\* validation_result, errors, processing_logs; save_to_database: invoice_id,
\* db_status, errors, processing_logs; process_user_query: query_results,
\* errors); image_path and user_query never change.
C24_StageFrame ==
    [][/\ \A f \in DOMAIN state : state'[f] # state[f] => f \in Owned(pc)
       /\ state'.image_path = state.image_path
       /\ state'.user_query = state.user_query]_vars

C24_Witness ==
    /\ executed = <<"validate_invoice", "save_to_database", "process_user_query">>
    /\ IsSet(state.user_query)
    /\ state.query_results # <<>>
    /\ HasError("Database Error:")
    /\ IsSet(state.validation_result)

Range(q) == {q[i] : i \in DOMAIN q}

\* The five hard-error conditions of an invoice.
HardErrorCondition(invoice) ==
    \/ invoice.invoice_number = <<>>
    \/ invoice.items = <<>>
    \/ invoice.invoice_date # 0 /\ invoice.due_date # 0
          /\ invoice.due_date < invoice.invoice_date
    \/ \E i \in DOMAIN invoice.items : invoice.items[i].quantity <= 0
    \/ \E i \in DOMAIN invoice.items : invoice.items[i].unit_price < 0

\* C25: for every invoice validate returns on, errors is non-empty exactly
\* when invoice_number is empty, or items is empty, or due_date is earlier
\* than invoice_date (both present), or some item has quantity <= 0, or
\* some item has unit_price < 0; each violating item has its own entry
\* labelled with its 1-based position; nothing else adds to errors.
C25_HardErrorRules ==
    last_validate.called =>
        LET invoice == last_validate.input[1]
            errors == last_validate.output[1].errors
            items == invoice.items
            Count(entry) == Cardinality({k \in DOMAIN errors : errors[k] = entry}) IN
        /\ errors # <<>> <=> HardErrorCondition(invoice)
        /\ \A i \in DOMAIN items :
              /\ Count(Msg(i, "Quantity must be positive"))
                    = IF items[i].quantity <= 0 THEN 1 ELSE 0
              /\ Count(Msg(i, "Unit price cannot be negative"))
                    = IF items[i].unit_price < 0 THEN 1 ELSE 0
        /\ Range(errors) \subseteq
              {Msg(0, "Invoice number is required"),
               Msg(0, "Due date cannot be before invoice date"),
               Msg(0, "Invoice must have at least one line item")}
              \cup {Msg(i, text) : i \in DOMAIN items,
                                   text \in {"Quantity must be positive",
                                             "Unit price cannot be negative"}}

\* An invoice whose only fault is its second item, with totals, format and
\* completeness warnings present.
C25_Witness ==
    /\ last_validate.called
    /\ last_validate.output[1].errors = <<Msg(2, "Unit price cannot be negative")>>
    /\ Len(last_validate.output[1].warnings) >= 3

ValidationErrorEntries ==
    {i \in DOMAIN state.errors : state.errors[i].prefix = "Validation Error:"}

\* C26: once validate_invoice has caught a fault (processed_invoice absent
\* after a failed Data-Mapping included), errors holds exactly one entry
\* starting with "Validation Error:", validation_result is absent, and the
\* run ends there: save_to_database and process_user_query do not run,
\* db_status stays pending and invoice_id unset.
C26_ValidationFaultTerminates ==
    (Ran("validate_invoice") /\ ~last_validate.called) =>
        /\ Cardinality(ValidationErrorEntries) = 1
        /\ state.validation_result = None
        /\ Last(executed) = "validate_invoice"
        /\ route = "validation_failed"
        /\ Ended
        /\ state.db_status = "pending"
        /\ state.invoice_id = None

C26_Witness ==
    /\ pc = "returned"
    /\ executed = <<"perform_ocr", "process_invoice_data", "validate_invoice">>
    /\ HasError("Processing Error:")
    /\ HasError("Validation Error:")
    /\ state.processed_invoice = None

\* States equal to s in ocr_result, with another processed_invoice and
\* another validation_result (warnings included).
SameOcrResult(s) ==
    {[s EXCEPT !.processed_invoice = p, !.validation_result = v] :
        p \in {None} \cup {Some(i) : i \in {x \in StageInvoices : x.items = <<GoodItem>>
                                                                  /\ x.payment_terms = ""
                                                                  /\ x.invoice_date = 1
                                                                  /\ x.summary.subtotal = 2000}},
        v \in {None} \cup {Some(x) : x \in ValidationResults}}

\* C27: what save_to_database hands to save_invoice depends on ocr_result
\* alone: had processed_invoice and validation_result (warnings included)
\* been different, the same mapping would have been handed over and the
\* same statements would have run with the same effect on the database.
C27_PersistenceInput ==
    [][pc = "save_to_database" =>
          \A other \in SameOcrResult(state) :
              LET saved == save_invoice(SaveArgument(other), db_rejects, db) IN
              /\ SaveArgument(other) = SaveArgument(state)
              /\ db' = saved.db
              /\ last_save'.ran = saved.ran
              /\ last_save'.raised = Raised(saved)]_vars

\* save_to_database ran on a mapped invoice whose validation left warnings.
C27_Witness ==
    /\ Ran("save_to_database")
    /\ last_save.called
    /\ IsSet(state.ocr_result)
    /\ IsSet(state.processed_invoice)
    /\ state.validation_result[1].warnings # <<>>

\* C29: for every verdict validate produces, check_validation_status
\* returns validation_passed or validation_failed and never
\* validation_warning: the verdict is not valid only with a non-empty
\* errors list, and the route taken after the stage is one of the two.
C29_WarningRouteDead ==
    last_validate.called =>
        LET verdict == last_validate.output[1]
            outcome == check_validation_status(
                           [state EXCEPT !.validation_result = Some(verdict)]) IN
        /\ outcome \in {"validation_passed", "validation_failed"}
        /\ ~verdict.is_valid => verdict.errors # <<>>
        /\ Last(executed) = "validate_invoice" =>
              /\ state.validation_result = Some(verdict)
              /\ route = outcome

\* A verdict with warnings and suggestions and no errors, routed as passed.
C29_Witness ==
    /\ last_validate.called
    /\ Last(executed) = "validate_invoice"
    /\ state.validation_result[1].errors = <<>>
    /\ state.validation_result[1].warnings # <<>>
    /\ state.validation_result[1].suggestions # <<>>
    /\ route = "validation_passed"

AtOrPast(node) == pc = node \/ Ran(node)

\* C30: persistence runs only on a completed OCR and a verdict without
\* hard errors.  A run whose OCR failed, or whose validation produced a
\* hard error, never reaches save_to_database and keeps db_status pending;
\* db_status leaves pending only in save_to_database; and when a run whose
\* verdict came from the validator reaches save_to_database, ocr_status is
\* completed and validation_result is present with an empty errors list.
C30_PersistencePrecondition ==
    /\ (Ran("perform_ocr") /\ state.ocr_status # "completed")
          => ~AtOrPast("save_to_database") /\ state.db_status = "pending"
    /\ (last_validate.called /\ last_validate.output[1].errors # <<>>)
          => ~AtOrPast("save_to_database") /\ state.db_status = "pending"
    /\ (state.db_status # "pending" /\ executed # <<>>
           /\ executed[1] # "process_user_query")
          => Ran("save_to_database")
    /\ (last_validate.called /\ AtOrPast("save_to_database"))
          => /\ state.ocr_status = "completed"
             /\ IsSet(state.validation_result)
             /\ state.validation_result[1].errors = <<>>

C30_Witness ==
    /\ last_validate.called
    /\ Ran("save_to_database")
    /\ state.db_status = "failed"
    /\ state.validation_result[1].warnings # <<>>

\* C22: execute_query reports a fault of the statement as a value.  For
\* every query whose statement the database was asked to run: nothing is
\* raised; when the database raised a fault the result has success = false
\* and an error message; when the statement succeeded the result has
\* success = true and a row_count, with the rows as data when the query
\* begins with SELECT (case-insensitively, after trimming) and data = None
\* otherwise.
C22_StatementFaultsAsValues ==
    (sql.called /\ sql.branch # "") =>
        /\ ~sql.raised
        /\ sql.fault # NoExc =>
              /\ ~sql.result[1].success
              /\ IsSet(sql.result[1].error)
        /\ sql.fault = NoExc =>
              /\ sql.result[1].success
              /\ IsSet(sql.result[1].row_count)
              /\ sql.result[1].data =
                    IF StartsWithSelect(sql.query) THEN Some(sql.before) ELSE None

\* C28: every query answer_question passes to execute_query begins with
\* SELECT, and no text returned by the LLM, fenced or not, with or without
\* a SELECT line, makes execute_query take its non-SELECT branch.
C28_SelectOnly ==
    (sql.generated /\ pc \in {"execute_query", "summarize", "answered"}) =>
        /\ StartsWithSelect(sql.query)
        /\ sql.branch # "execute"

\* C31: invoice_id is set exactly when db_status is saved; a persistence
\* that failed, or has not run, leaves no invoice_id in the state.
C31_InvoiceIdAgreesWithStatus ==
    /\ IsSet(state.invoice_id) <=> state.db_status = "saved"
    /\ (Ran("save_to_database") /\ last_save.raised)
          => state.invoice_id = None /\ state.db_status = "failed"
    /\ ~Ran("save_to_database") => state.invoice_id = None

\* save_to_database ran, save_invoice raised, and the run went on to the
\* query stage.
C31_Witness ==
    /\ Ran("save_to_database")
    /\ last_save.called /\ last_save.raised
    /\ state.db_status = "failed"
    /\ state.invoice_id = None
    /\ Ran("process_user_query")

\* C32: the route taken after save_to_database depends on user_query
\* alone.  In a run that reached save_to_database with a non-empty
\* user_query, process_user_query runs next whatever db_status is, saved or
\* failed; with no user_query the run ends; and check_query_needed gives
\* the same outcome on the state with any other persistence outcome.
C32_QueryIndependentOfPersistence ==
    \A i \in DOMAIN executed :
        executed[i] = "save_to_database" =>
            /\ Truthy(state.user_query) => FollowedBy(i, "process_user_query")
            /\ ~Truthy(state.user_query) => StoppedAt(i)
            /\ \A status \in {"pending", "saved", "failed"}, id \in {None, Some(1)} :
                  check_query_needed([state EXCEPT !.db_status = status,
                                                   !.invoice_id = id])
                      = check_query_needed(state)

C32_Witness ==
    /\ executed = <<"validate_invoice", "save_to_database", "process_user_query">>
    /\ Truthy(state.user_query)
    /\ state.db_status = "failed"
    /\ last_validate.called
    /\ pc = "returned"

\* C33: on one SupabaseTool, however the calls interleave, create_pool is
\* under way or has succeeded at most once, so at most one pool exists, it
\* is the one self.pool refers to (none is leaked), and it has at most
\* max_size connections checked out.
C33_SinglePool ==
    /\ pool.creating + Len(pool.pools) <= 1
    /\ \A k \in DOMAIN pool.pools :
          /\ k = pool.current
          /\ pool.pools[k].held <= max_size

\* C34: a response of POST /query with success = true reports in
\* sql_generated the SQL statement that was executed to produce its answer,
\* whatever the LLM answered to each of its calls.
C34_ReportsExecutedSql ==
    (pc = "responded" /\ sql.success /\ sql.called /\ sql.branch # "")
        => sql.sql_generated = Some(sql.query)

====
